---- MODULE Spec2Model ----
(***************************************************************************)
(* Receipt tracker: the extraction-and-normalization pipeline of           *)
(* src/app/api/transactions/route.ts (the POST handler of /api/process,    *)
(* callOpenAiVision, ReceiptSchema, BodySchema).                           *)
(*                                                                         *)
(* Representation.                                                         *)
(*  - A JavaScript string is a tuple of one-character strings, so that     *)
(*    trim, toUpperCase, the date regex and Number() are computed.         *)
(*  - A JSON/JavaScript value is a record [t, s, h]: t is the typeof tag   *)
(*    ("undefined" for a missing key), s the characters of a string, h a   *)
(*    number in hundredths (2347 is 23.47; 100 is the integer 1).          *)
(*    A number that is not finite has t = "number" and s = <<"I">> or      *)
(*    <<"N">> (Infinity, NaN).                                             *)
(*  - The version of the zod package is not fixed by the sources (there is *)
(*    no manifest); zod 3 and zod 4 differ on a default under .partial(),  *)
(*    so zodMajor is chosen in Init and never changes.                     *)
(***************************************************************************)
EXTENDS Integers, Sequences, FiniteSets, TLC

VARIABLES
  zodMajor,    \* major version of the zod package the build resolved
  apiKey,      \* process.env.OPENAI_API_KEY is set
  pc,          \* where the POST invocation is suspended (its awaits)
  req,         \* the inbound request: bearer token and body
  user,        \* the user supabaseAdmin.auth.getUser resolved
  signedUrl,   \* the signed read URL createSignedUrl returned
  elapsed,     \* seconds since the model request was issued, while in flight
  timerArmed,  \* the 60 s abort timer of callOpenAiVision is pending
  aborted,     \* controller.signal.aborted
  res,         \* the model's HTTP response once its headers arrived
  payload,     \* await res.json(): the response envelope
  rawText,     \* what callOpenAiVision returned
  raw,         \* JSON.parse(rawText)
  parsed,      \* ReceiptSchema.parse(raw)
  calls,       \* external calls this invocation issued, in order
  rows,        \* the transactions table
  response,    \* the response of the invocation
  objects,     \* the paths of the image objects in the storage bucket
  nextId,      \* the id the table gives to the next inserted row
  apiReq,      \* the request whose handler took the last step
  apiResponse, \* what that handler answered (status 0: not yet)
  modelInput,  \* the image whose signed URL that handler sent to the model
  del,         \* the last DELETE invocation (its awaits)
  patchBody,   \* the body of the PATCH request of the last step
  addStatus,   \* AddPage: status (idle, uploading, processing)
  addMessage,  \* AddPage: message, shown under the form
  addPc,       \* AddPage: where onSubmit is suspended (its awaits)
  clientLeft,  \* AddPage: seconds left on the 60 s abort timer of the fetch
  submits,     \* AddPage: how many submissions were started
  runs,        \* per submission: its server invocation and what was shown
  listPc,      \* TransactionsPage: mounting, ready, or gone to /login
  listRows,    \* TransactionsPage: rows, the list that is displayed
  deletingIds, \* TransactionsPage: the ids whose delete is in flight
  listError,   \* TransactionsPage: error, the banner text ("" for null)
  editingId,   \* TransactionsPage: the row being edited (0 for null)
  draft,       \* TransactionsPage: the body saveEdits builds from the draft
  saving,      \* TransactionsPage: a save is in flight
  deletes,     \* per id: the deleteTransaction call in flight, its locals
  save,        \* the saveEdits call in flight and its request
  racers       \* two DELETE invocations of one user, await by await

\* the state of one POST /api/process invocation taken await by await
flowVars == <<pc, req, user, signedUrl, elapsed, timerArmed, aborted, res,
              payload, rawText, raw, parsed, calls, response>>

\* the state of the storage bucket and of the other routes
apiVars ==
  <<objects, nextId, apiReq, apiResponse, modelInput, del, patchBody>>

\* the state of the add-receipt form and of the invocations it started
addVars == <<addStatus, addMessage, addPc, clientLeft, submits, runs>>

\* the state of the transactions list and of the calls it started
listVars == <<listPc, listRows, deletingIds, listError, editingId, draft,
              saving, deletes, save>>

\* the state of the clients: the browser pages and the racing requests
uiVars == <<addVars, listVars, racers>>

vars == <<zodMajor, apiKey, pc, req, user, signedUrl, elapsed, timerArmed,
          aborted, res, payload, rawText, raw, parsed, calls, rows, response,
          objects, nextId, apiReq, apiResponse, modelInput, del,
          patchBody, uiVars>>

(***************************************************************************)
(* Strings                                                                 *)
(***************************************************************************)
WhiteSpace == {" ", "\t", "\n"}

Digits == {"0", "1", "2", "3", "4", "5", "6", "7", "8", "9"}

DigitVal(c) ==
  CASE c = "0" -> 0 [] c = "1" -> 1 [] c = "2" -> 2 [] c = "3" -> 3
    [] c = "4" -> 4 [] c = "5" -> 5 [] c = "6" -> 6 [] c = "7" -> 7
    [] c = "8" -> 8 [] c = "9" -> 9

RECURSIVE TrimStart(_)
TrimStart(s) ==
  IF s = <<>> THEN s
  ELSE IF Head(s) \in WhiteSpace THEN TrimStart(Tail(s)) ELSE s

RECURSIVE TrimEnd(_)
TrimEnd(s) ==
  IF s = <<>> THEN s
  ELSE IF s[Len(s)] \in WhiteSpace THEN TrimEnd(SubSeq(s, 1, Len(s) - 1)) ELSE s

\* String.prototype.trim
Trim(s) == TrimEnd(TrimStart(s))

UpperOf(c) ==
  CASE c = "a" -> "A" [] c = "c" -> "C" [] c = "d" -> "D" [] c = "o" -> "O"
    [] c = "s" -> "S" [] c = "t" -> "T" [] c = "u" -> "U" [] c = "b" -> "B"
    [] c = "e" -> "E" [] c = "f" -> "F"
    [] OTHER -> c

\* String.prototype.toUpperCase (on the letters the inputs use)
ToUpperCase(s) == [i \in 1..Len(s) |-> UpperOf(s[i])]

\* s.replace(/"/g, "")
StripQuotes(s) == SelectSeq(s, LAMBDA c : c # "\"")

\* the date pattern without its anchors: /\d{4}-\d{2}-\d{2}/ at the start
DateRegexTest_unanchored(s) ==
  /\ Len(s) >= 10
  /\ \A i \in {1, 2, 3, 4, 6, 7, 9, 10} : s[i] \in Digits
  /\ s[5] = "-"
  /\ s[8] = "-"

\* /^\d{4}-\d{2}-\d{2}$/.test(s)
DateRegexTest(s) ==
  /\ Len(s) = 10
  /\ \A i \in {1, 2, 3, 4, 6, 7, 9, 10} : s[i] \in Digits
  /\ s[5] = "-"
  /\ s[8] = "-"

(***************************************************************************)
(* Values                                                                  *)
(***************************************************************************)
Val(t, s, h) == [t |-> t, s |-> s, h |-> h]

Undefined == Val("undefined", <<>>, 0)
Null == Val("null", <<>>, 0)
Bool == Val("boolean", <<>>, 1)
Arr == Val("array", <<>>, 0)
Obj == Val("object", <<>>, 0)
Str(s) == Val("string", s, 0)
Num(h) == Val("number", <<>>, h)
Infinity == Val("number", <<"I">>, 0)
NaN == Val("number", <<"N">>, 0)

IsString(v) == v.t = "string"
IsNumber(v) == v.t = "number"
\* Number.isFinite
IsFinite(v) == v.t = "number" /\ v.s = <<>>
\* Number.isInteger
IsInteger(v) == IsFinite(v) /\ v.h % 100 = 0

RECURSIVE DigitsValue(_)
\* the value of a run of decimal digits
DigitsValue(s) ==
  IF s = <<>> THEN 0
  ELSE 10 * DigitsValue(SubSeq(s, 1, Len(s) - 1)) + DigitVal(s[Len(s)])

AllDigits(s) == \A i \in 1..Len(s) : s[i] \in Digits

\* position of the first "." of s, or 0
DotIndex(s) ==
  IF \E i \in 1..Len(s) : s[i] = "."
  THEN CHOOSE i \in 1..Len(s) : s[i] = "." /\ \A j \in 1..(i - 1) : s[j] # "."
  ELSE 0

\* the fraction digits of a decimal literal, in hundredths
FractionHundredths(fp) ==
  IF Len(fp) = 0 THEN 0
  ELSE IF Len(fp) = 1 THEN 10 * DigitsValue(fp)
  ELSE DigitsValue(fp)

\* the value of the digits ip before and fp after the decimal point
DecimalLiteral(ip, fp) ==
  IF /\ AllDigits(ip) /\ AllDigits(fp)
     /\ Len(ip) + Len(fp) > 0
     /\ Len(fp) <= 2
    THEN Num(100 * DigitsValue(ip) + FractionHundredths(fp))
    ELSE NaN

\* s read as a decimal literal whose point is at index d (0: no point)
SplitAtDot(s, d) ==
  DecimalLiteral(IF d = 0 THEN s ELSE SubSeq(s, 1, d - 1),
                 IF d = 0 THEN <<>> ELSE SubSeq(s, d + 1, Len(s)))

\* an unsigned decimal literal: digits, digits.digits, .digits, digits.
\* (at most two fraction digits, the precision of h)
UnsignedHundredths(s) == SplitAtDot(s, DotIndex(s))

\* the hexadecimal digits, in the order of their values
HexChars ==
  <<"0", "1", "2", "3", "4", "5", "6", "7", "8", "9", "a", "b", "c", "d",
    "e", "f">>

\* the value of a hexadecimal digit in either letter case, or -1
HexVal(c) ==
  LET hits == {i \in 1..16 : HexChars[i] = c \/ UpperOf(HexChars[i]) = c}
  IN IF hits = {} THEN 0 - 1 ELSE (CHOOSE i \in hits : TRUE) - 1

\* the value of a run of hexadecimal digits
HexValue(s) ==
  LET F[i \in 0..Len(s)] ==
        IF i = 0 THEN 0 ELSE 16 * F[i - 1] + HexVal(s[i])
  IN F[Len(s)]

\* a hexadecimal literal: 0x or 0X and at least one hexadecimal digit
HexLiteral(s) ==
  /\ Len(s) > 2
  /\ s[1] = "0"
  /\ s[2] \in {"x", "X"}
  /\ \A i \in 3..Len(s) : HexVal(s[i]) >= 0

\* an unsigned numeric literal: Infinity or a decimal literal
UnsignedNumber(body) ==
  IF body = <<"I", "n", "f", "i", "n", "i", "t", "y">> THEN Infinity
  ELSE UnsignedHundredths(body)

\* the literal after a minus sign
Negated(u) == IF IsFinite(u) THEN Num(0 - u.h) ELSE u

\* Number(s) once the white space around s is dropped
TrimmedToNumber(t) ==
  IF t = <<>> THEN Num(0)
  ELSE IF HexLiteral(t) THEN Num(100 * HexValue(SubSeq(t, 3, Len(t))))
  ELSE IF Head(t) = "-" THEN Negated(UnsignedNumber(Tail(t)))
  ELSE IF Head(t) = "+" THEN UnsignedNumber(Tail(t))
  ELSE UnsignedNumber(t)

\* Number(s) for a string s (ECMAScript StringToNumber): surrounding white
\* space is dropped, the empty string is 0, "Infinity" is Infinity, an
\* unsigned hexadecimal literal and a signed decimal literal are their
\* values, anything else is NaN.
StringToNumber(s) == TrimmedToNumber(Trim(s))

(***************************************************************************)
(* ReceiptSchema: the normalizer of the model's JSON (route.ts 328-380)    *)
(***************************************************************************)
Fields == {"merchant", "txn_date", "total_cents", "currency", "category",
           "confidence", "notes"}

\* a key the schema does not declare
ExtraKey == "store_id"

Keys == Fields \cup {ExtraKey}

\* a validation issue raised by a zod check
Issue == Val("issue", <<>>, 0)

CAD == Str(<<"C", "A", "D">>)

\* z.string().nullable()
ZStringNullable(v) == IF v.t \in {"string", "null"} THEN v ELSE Issue

\* z.string()
ZString(v) == IF v.t = "string" THEN v ELSE Issue

\* z.number(): zod 3 rejects NaN, zod 4 rejects NaN and the infinities
ZNumberType(v) ==
  /\ v.t = "number"
  /\ v # NaN
  /\ (zodMajor = 4 => IsFinite(v))

\* z.number().int().nonnegative().nullable()
ZIntNonnegativeNullable(v) ==
  IF v = Null THEN v
  ELSE IF ZNumberType(v) /\ IsInteger(v) /\ v.h >= 0 THEN v
  ELSE Issue

\* z.number().min(0).max(1).nullable(); Infinity fails max(1)
ZUnitIntervalNullable(v) ==
  IF v = Null THEN v
  ELSE IF ZNumberType(v) /\ IsFinite(v) /\ v.h >= 0 /\ v.h <= 100 THEN v
  ELSE Issue

\* the preprocess callback of txn_date
txn_date_preprocess(v) ==
  IF v = Null \/ v = Undefined THEN Null
  ELSE IF ~IsString(v) THEN Null
  ELSE LET trimmed == Trim(v.s)
       IN IF trimmed = <<>> \/ trimmed = <<"/", "/">> THEN Null
          ELSE IF StripQuotes(trimmed) = <<>> THEN Null
          ELSE IF DateRegexTest(trimmed) THEN Str(trimmed) ELSE Null

\* the preprocess callback of total_cents
total_cents_preprocess(v) ==
  IF v = Null \/ v = Undefined THEN Null
  ELSE IF IsNumber(v) THEN v
  ELSE IF IsString(v)
       THEN LET n == StringToNumber(v.s) IN IF IsFinite(n) THEN n ELSE Null
  ELSE Null

\* the preprocess callback of confidence
confidence_preprocess(v) ==
  IF v = Null \/ v = Undefined THEN Null
  ELSE IF IsNumber(v) THEN v
  ELSE IF IsString(v)
       THEN LET n == StringToNumber(v.s) IN IF IsFinite(n) THEN n ELSE Null
  ELSE Null

\* the currency callback without toUpperCase
currency_preprocess_noUpper(v) ==
  IF v = Null \/ v = Undefined THEN CAD
  ELSE IF ~IsString(v) THEN CAD
  ELSE LET trimmed == Trim(v.s)
       IN IF Len(trimmed) > 0 THEN Str(trimmed) ELSE CAD

\* the preprocess callback of currency
currency_preprocess(v) ==
  IF v = Null \/ v = Undefined THEN CAD
  ELSE IF ~IsString(v) THEN CAD
  ELSE LET trimmed == Trim(v.s)
       IN IF Len(trimmed) > 0 THEN Str(ToUpperCase(trimmed)) ELSE CAD

\* the schema of one key before .optional().default(d)
FieldInner(k, v) ==
  CASE k = "merchant" -> ZStringNullable(v)
    [] k = "txn_date" -> ZStringNullable(txn_date_preprocess(v))
    [] k = "total_cents" -> ZIntNonnegativeNullable(total_cents_preprocess(v))
    [] k = "currency" -> ZString(currency_preprocess(v))
    [] k = "category" -> ZStringNullable(v)
    [] k = "confidence" -> ZUnitIntervalNullable(confidence_preprocess(v))
    [] k = "notes" -> ZStringNullable(v)

\* the argument of .default(...)
FieldDefault(k) == IF k = "currency" THEN CAD ELSE Null

\* One key of ReceiptSchema: inner.optional().default(d), wrapped once more
\* in .optional() by .partial().  For a missing key zod 3's outer optional
\* answers undefined before the default is consulted; zod 4 applies the
\* default inside the optional.
FieldSchema(k, v) ==
  IF v = Undefined
  THEN IF zodMajor = 3 THEN Undefined ELSE FieldDefault(k)
  ELSE FieldInner(k, v)

\* a parsed JSON value: t is its JSON type, f its members when an object
\* (Undefined marks a key the object does not have)
NoMembers == [k \in Keys |-> Undefined]

Scalar(t) == [t |-> t, f |-> NoMembers]

Object(f) == [t |-> "object", f |-> f]

\* ReceiptSchema.parse: ok = FALSE stands for the thrown ZodError
ReceiptSchema(input) ==
  IF input.t # "object"
  THEN [ok |-> FALSE, f |-> [k \in Fields |-> Issue]]
  ELSE LET out == [k \in Fields |-> FieldSchema(k, input.f[k])]
       IN [ok |-> \A k \in Fields : out[k] # Issue, f |-> out]

(***************************************************************************)
(* Inputs: the values the model may put under a key, and whole outputs     *)
(***************************************************************************)
sCostco == <<"C", "o", "s", "t", "c", "o">>
sFood == <<"F", "o", "o", "d">>
sDate == <<"2", "0", "2", "4", "-", "0", "3", "-", "0", "1">>
sDatePadded == <<" ">> \o sDate \o <<" ">>
sDateShort == <<"2", "0", "2", "4", "-", "1", "-", "5">>
sDateSlash == <<"2", "0", "2", "4", "/", "0", "3", "/", "0", "1">>
sDateLong == sDate \o <<"T">>
sQuotes == <<"\"", "\"">>
sSlashes == <<"/", "/">>
sEmpty == <<>>
sBlank == <<" ", " ">>
scad == <<"c", "a", "d">>
susd == <<"u", "s", "d">>
sUSD == <<"U", "S", "D">>
susdPadded == <<" ", "u", "s", "d", "\n">>
s2347 == <<"2", "3", ".", "4", "7">>
s45 == <<"4", "5">>
sMinus5 == <<"-", "5">>
sHalf == <<"0", ".", "5">>
sInfinity == <<"I", "n", "f", "i", "n", "i", "t", "y">>
s0x10 == <<"0", "x", "1", "0">>

StringSamples ==
  {sCostco, sFood, sDate, sDatePadded, sDateShort, sDateSlash, sDateLong,
   sQuotes, sSlashes, sEmpty, sBlank, scad, susd, sUSD, susdPadded, s2347,
   s45, sMinus5, sHalf, sInfinity, s0x10}

\* 0, 4599, -5, 23.47, 0.92, 1, 1.5, -0.1
NumberSamples ==
  {Num(0), Num(459900), Num(-500), Num(2347), Num(92), Num(100), Num(150),
   Num(-10), Infinity}

\* what a key of the model's object may hold (Undefined: the key is missing)
ValueSamples ==
  {Undefined, Null, Bool, Arr, Obj}
    \cup {Str(s) : s \in StringSamples} \cup NumberSamples

\* the receipt of the end-to-end scenario, and an object of nulls
Costco ==
  [k \in Keys |->
     CASE k = "merchant" -> Str(sCostco)
       [] k = "txn_date" -> Str(sDate)
       [] k = "total_cents" -> Num(459900)
       [] k = "currency" -> Str(scad)
       [] k = "category" -> Str(sFood)
       [] k = "confidence" -> Num(92)
       [] k = "notes" -> Null
       [] OTHER -> Undefined]

Nulls ==
  [k \in Keys |-> IF k = "currency" THEN Str(sUSD)
                  ELSE IF k = ExtraKey THEN Undefined ELSE Null]

Bases == {Costco, Nulls}

\* the model's outputs: a base with one key replaced, and the non-objects
RawSamples ==
  {Object([b EXCEPT ![k] = v]) : b \in Bases, k \in Keys, v \in ValueSamples}
    \cup {Scalar(t) : t \in {"null", "array", "number", "string", "boolean"}}

(***************************************************************************)
(* Texts and the model's response envelope                                 *)
(* A text is kept by what the code asks of it: k tells whether it is       *)
(* missing ("absent": not a string), empty, white space only, some text    *)
(* that is not JSON, or the JSON text of the value v.                      *)
(***************************************************************************)
Text(k, v) == [k |-> k, v |-> v]

NoText == Text("absent", Scalar("undefined"))
EmptyText == Text("empty", Scalar("undefined"))
BlankText == Text("blank", Scalar("undefined"))
NotJsonText == Text("notjson", Scalar("undefined"))
JsonText(v) == Text("json", v)

\* typeof t === "string"
IsText(t) == t.k # "absent"

\* t.trim().length > 0
TrimmedNonEmpty(t) == t.k \in {"notjson", "json"}

\* JSON.stringify writes a number that is not finite as null
StringifyMember(v) == IF IsNumber(v) /\ ~IsFinite(v) THEN Null ELSE v

\* JSON.stringify(json)
JSONstringify(json) ==
  JsonText([t |-> json.t, f |-> [k \in Keys |-> StringifyMember(json.f[k])]])

\* JSON.parse(text): ok = FALSE stands for the thrown SyntaxError
JSONparse(text) ==
  IF text.k = "json" THEN [ok |-> TRUE, v |-> text.v]
  ELSE [ok |-> FALSE, v |-> Scalar("undefined")]

\* a content part of an output item
Part(type, text, json) == [type |-> type, text |-> text, json |-> json]

\* the body of the loop over the parts of an item (route.ts 483-493):
\* the text the part makes the function return, NoText to go on
PartText(part) ==
  IF part.type = "output_text" /\ IsText(part.text) THEN part.text
  ELSE IF part.type = "output_json"
          /\ part.json.t \notin {"null", "undefined"}
       THEN JSONstringify(part.json)
  ELSE IF IsText(part.text) /\ TrimmedNonEmpty(part.text) THEN part.text
  ELSE NoText

\* whether the part makes the loop return
PartReturns(part) ==
  \/ part.type = "output_text" /\ IsText(part.text)
  \/ part.type = "output_json" /\ part.json.t \notin {"null", "undefined"}
  \/ IsText(part.text) /\ TrimmedNonEmpty(part.text)

RECURSIVE Flatten(_)
\* the parts of all output items in the order the two loops visit them
Flatten(output) ==
  IF output = <<>> THEN <<>> ELSE Head(output) \o Flatten(Tail(output))

\* the extraction of route.ts 473-496: found = FALSE stands for
\* Error("OpenAI response missing output text/json.")
ExtractText(data) ==
  IF IsText(data.output_text) /\ TrimmedNonEmpty(data.output_text)
  THEN [found |-> TRUE, text |-> data.output_text]
  ELSE LET parts == Flatten(data.output)
           hits == {i \in 1..Len(parts) : PartReturns(parts[i])}
       IN IF hits = {} THEN [found |-> FALSE, text |-> NoText]
          ELSE LET first == CHOOSE i \in hits : \A j \in hits : i <= j
               IN [found |-> TRUE, text |-> PartText(parts[first])]

Payload(output_text, output) == [output_text |-> output_text, output |-> output]

\* the envelopes that carry the model's output v (as text t, as JSON v)
Envelopes(t, v) ==
  { Payload(t, <<>>),
    Payload(NoText, << <<Part("output_text", t, Scalar("undefined"))>> >>),
    Payload(EmptyText, << <<Part("output_json", NoText, v)>> >>),
    Payload(NoText, << <<Part("output_text", EmptyText, Scalar("undefined")),
                         Part("output_json", NoText, v)>> >>),
    Payload(BlankText, << <<Part("reasoning", NoText, Scalar("undefined"))>>,
                          <<Part("summary_text", t, Scalar("undefined"))>> >>) }

\* envelopes whose parts carry different outputs, in both orders, and an
\* empty text-typed part in an item before the item that has the text
MixedPayloads ==
  { Payload(NoText, << <<Part("output_json", NoText, Object(Costco)),
                         Part("output_text", JsonText(Object(Nulls)),
                              Scalar("undefined"))>> >>),
    Payload(NoText, << <<Part("summary_text", JsonText(Object(Nulls)),
                              Scalar("undefined")),
                         Part("output_json", NoText, Object(Costco))>> >>),
    Payload(NoText, << <<Part("summary_text", JsonText(Object(Nulls)),
                              Scalar("undefined")),
                         Part("output_text", JsonText(Object(Costco)),
                              Scalar("undefined"))>> >>),
    Payload(NoText, << <<Part("output_text", EmptyText, Scalar("undefined"))>>,
                       <<Part("output_text", JsonText(Object(Costco)),
                              Scalar("undefined"))>> >>),
    Payload(BlankText, << <<Part("output_text", BlankText,
                                 Scalar("undefined")),
                            Part("summary_text", JsonText(Object(Nulls)),
                                 Scalar("undefined"))>> >>) }

NoPayload == Payload(NoText, <<>>)

\* every output as the direct text; the other envelopes for the two bases,
\* for a text that is not JSON and for an empty text
Payloads ==
  {Payload(JsonText(v), <<>>) : v \in RawSamples}
    \cup UNION {Envelopes(JsonText(Object(b)), Object(b)) : b \in Bases}
    \cup Envelopes(NotJsonText, Scalar("undefined"))
    \cup Envelopes(EmptyText, Scalar("null"))
    \cup MixedPayloads

(***************************************************************************)
(* The inbound request and BodySchema (route.ts 316-324)                   *)
(***************************************************************************)
Users == {"A", "B"}
NoUser == "none"

NoToken == "none"
Tokens == {NoToken, "stale", "tokenA", "tokenB"}

\* the user a bearer token belongs to
TokenUser(token) ==
  CASE token = "tokenA" -> "A" [] token = "tokenB" -> "B" [] OTHER -> NoUser

\* a key that the body does not have
Missing == "(missing)"

ImagePaths == {"", "A/2024-03/r1.jpg", Missing}
SourceTypes == {"receipt", "screenshot", "camera", "upload", "scan", Missing}

\* json: the body text is JSON
Requests ==
  [token : Tokens, json : BOOLEAN, imagePath : ImagePaths,
   sourceType : SourceTypes]

NoRequest ==
  [token |-> NoToken, json |-> FALSE, imagePath |-> Missing,
   sourceType |-> Missing]

\* SourceTypeInputSchema without the transform
SourceTypeInputSchema_noTransform(v) ==
  IF v \in {"receipt", "screenshot", "camera", "upload"}
  THEN [ok |-> TRUE, v |-> v]
  ELSE [ok |-> FALSE, v |-> Missing]

\* SourceTypeInputSchema: the enum, then the transform
SourceTypeInputSchema(v) ==
  IF v \in {"receipt", "screenshot", "camera", "upload"}
  THEN [ok |-> TRUE, v |-> IF v = "screenshot" THEN "screenshot" ELSE "receipt"]
  ELSE [ok |-> FALSE, v |-> Missing]

\* BodySchema.parse(await req.json()): ok = FALSE stands for the throw
BodySchema(r) ==
  LET st == SourceTypeInputSchema(r.sourceType)
  IN [ok |-> r.json /\ r.imagePath # Missing /\ r.imagePath # "" /\ st.ok,
      imagePath |-> r.imagePath, sourceType |-> st.v]

(***************************************************************************)
(* Responses and rows                                                      *)
(***************************************************************************)
\* the abort timer of callOpenAiVision, in seconds (60_000 ms)
Timeout == 60

\* the validity asked of the signed URL, in seconds (60 * 10)
SignedUrlTtl == 600

\* how long the model is let run while the invocation awaits it, and the
\* seconds between two observations of the clock
MaxClock == 75
TickStep == 15

\* the message of the SyntaxError that JSON.parse throws: it tells of the
\* offending text only, not of where the text came from
SyntaxErrorMessage(text) ==
  IF TrimmedNonEmpty(text) THEN "Unexpected token in JSON"
  ELSE "Unexpected end of JSON input"

MsgMissingToken == "Missing Authorization bearer token."
MsgUnauthorized == "Unauthorized."
MsgBodySyntax == SyntaxErrorMessage(NotJsonText)
MsgBodyZod == "ZodError: imagePath/sourceType"
MsgObjectNotFound == "Object not found"
MsgNoSignedUrl == "No signed URL"
MsgMissingKey == "Missing OPENAI_API_KEY."
MsgAborted == "This operation was aborted"
MsgFetchFailed == "fetch failed"
MsgOpenAiFailed == "OpenAI request failed (500)."
MsgEnvelopeSyntax == SyntaxErrorMessage(NotJsonText)
MsgMissingOutput == "OpenAI response missing output text/json."
MsgOutputSyntax == SyntaxErrorMessage(NotJsonText)
MsgOutputEnd == SyntaxErrorMessage(EmptyText)
MsgReceiptZod == "ZodError: receipt"
MsgInsertFailed == "insert failed"

\* what a non-2xx response of the model may carry as its body
ErrorBodies == {"", "{\"error\":{\"message\":\"rate limited\"}}", MsgAborted}

NoResponse == [status |-> 0, error |-> "", transaction |-> <<>>]

\* NextResponse.json({ error }, { status })
ErrorResponse(status, error) ==
  [status |-> status, error |-> error, transaction |-> <<>>]

\* NextResponse.json({ transaction: txn })
OkResponse(txn) == [status |-> 200, error |-> "", transaction |-> <<txn>>]

\* an undefined member is left out of the insert's JSON: the column is NULL
Column(v) == IF v = Undefined THEN Null ELSE v

\* parsed.currency ?? "CAD"
CurrencyOrDefault(v) == IF v = Undefined \/ v = Null THEN CAD ELSE v

\* the row POST inserts (route.ts 548-559); the table assigns the id
InsertedRow(id, u, body, p) ==
  [id |-> id,
   user_id |-> u,
   source_type |-> body.sourceType,
   image_path |-> body.imagePath,
   merchant |-> Column(p["merchant"]),
   txn_date |-> Column(p["txn_date"]),
   total_cents |-> Column(p["total_cents"]),
   currency |-> CurrencyOrDefault(p["currency"]),
   category |-> Column(p["category"]),
   confidence |-> Column(p["confidence"]),
   ai_json |-> p]

\* a row that is in the table before the invocation
EarlierRow ==
  InsertedRow(1, "B",
              [imagePath |-> "B/2024-02/r0.jpg", sourceType |-> "screenshot"],
              [k \in Fields |-> IF k = "currency" THEN CAD ELSE Null])

\* a signed URL: the object it reads and the seconds it stays valid
NoUrl == [path |-> Missing, ttl |-> 0]

\* createSignedUrl(path, ttl)
createSignedUrl(path, ttl) == [path |-> path, ttl |-> ttl]

NoParsed == [ok |-> FALSE, f |-> [k \in Fields |-> Undefined]]

(***************************************************************************)
(* The storage bucket and the requests of the other routes                 *)
(***************************************************************************)
\* the images the two users uploaded from the Add page, each under its own
\* user id (`${userId}/${monthPrefix}/${uuid}-${safeName}`)
UploadedPaths == {"A/2024-03/r1.jpg", "B/2024-02/r0.jpg"}

\* the user under whose id an image was uploaded
PathOwner(path) ==
  CASE path = "A/2024-03/r1.jpg" -> "A"
    [] path = "B/2024-02/r0.jpg" -> "B"
    [] OTHER -> NoUser

\* a request: the route, the caller getUser resolved, the transaction id
\* and the imagePath it names (0, Missing: none)
ApiRequest(op, u, id, imagePath) ==
  [op |-> op, user |-> u, id |-> id, imagePath |-> imagePath]

NoApiRequest == ApiRequest("none", NoUser, 0, Missing)

\* a response: NextResponse.json({ error }), { transaction },
\* { transactions }, { signedUrl } or { ok: true }, with its status
ApiResponse(status, error, transactions, url) ==
  [status |-> status, error |-> error, transactions |-> transactions,
   signedUrl |-> url]

NoApiResponse == ApiResponse(0, "", <<>>, NoUrl)

ApiError(status, error) == ApiResponse(status, error, <<>>, NoUrl)

\* a DELETE invocation: the await it is suspended at ("idle": it returned),
\* its caller, the id it names, the image_path its select returned and the
\* object its storage call removed
Deletion(at, u, id, image_path, removed) ==
  [pc |-> at, user |-> u, id |-> id, image_path |-> image_path,
   removed |-> removed]

NoDelete == Deletion("idle", NoUser, 0, Missing, Missing)

\* the columns a PATCH may set
PatchKeys == {"merchant", "txn_date", "total_cents", "currency", "category"}

NoPatchFields == [k \in PatchKeys |-> Undefined]

\* the body of a PATCH: object tells it is a JSON object, extra that it has
\* a key the schema does not declare
PatchBody(id, f, extra) ==
  [object |-> TRUE, id |-> id, f |-> f, extra |-> extra]

\* a body that is no JSON object (req.json() threw: null)
NoPatchBody ==
  [object |-> FALSE, id |-> 0, f |-> NoPatchFields, extra |-> FALSE]

(***************************************************************************)
(* The add-receipt form (AddPage): the state of its submissions.           *)
(***************************************************************************)
\* how many submissions of the form one behaviour follows
MaxSubmits == 2

\* line 681: window.setTimeout(() => controller.abort(), 60_000), in seconds
ClientTimeout == 60

\* line 612: useState<string | null>(null), and line 625: setMessage(null)
NoMessage == ""

\* one submission: the server invocation its request started (srv: none,
\* sent, model, responded), the seconds left on that invocation's model
\* timer, whether it inserted a row, whether it answered 2xx, and the
\* message the form showed when onSubmit ended
Run(srv, left, inserted, ok, shown) ==
  [srv |-> srv, left |-> left, inserted |-> inserted, ok |-> ok,
   shown |-> shown]

\* a submission that was not started
NoRun == Run("none", 0, FALSE, FALSE, NoMessage)

(***************************************************************************)
(* The transactions list (TransactionsPage, page.tsx 171-413): the calls   *)
(* in flight.                                                              *)
(***************************************************************************)
\* how many rows the signed-in user has when the page loads
ListSize == 2

\* page.tsx 295: let removed: Transaction | null = null
NoRow == <<>>

\* one deleteTransaction call: where it is (none, sent, answered), its
\* locals removed and removedIndex (page.tsx 295-296), and the status of
\* the response once the route answered
DeleteCall(at, removed, removedIndex, code) ==
  [pc |-> at, removed |-> removed, removedIndex |-> removedIndex,
   status |-> code]

NoDeleteCall == DeleteCall("none", NoRow, -1, 0)

\* one saveEdits call: where it is, the request body (page.tsx 380-387), and
\* the response: its status and json.transaction
Save(at, body, code, transaction) ==
  [pc |-> at, body |-> body, status |-> code, transaction |-> transaction]

NoSave == Save("none", NoPatchBody, 0, NoRow)

(***************************************************************************)
(* Two DELETE requests of one user in flight at once (route.ts 52-121).    *)
(***************************************************************************)
Racers == {1, 2}

\* one DELETE invocation: where it is (idle, select, remove, delete, done),
\* the id of its body, txn.image_path once selected, the status it
\* answered, and whether a call it made reported an error
Racer(at, id, image_path, code) ==
  [pc |-> at, id |-> id, image_path |-> image_path, status |-> code,
   failed |-> FALSE]

NoRacer == Racer("idle", 0, Missing, 0)

(***************************************************************************)
(* POST /api/process (route.ts 499-574) and callOpenAiVision (382-497),    *)
(* one action per await                                                    *)
(***************************************************************************)
InitWith(table, bucket) ==
  /\ zodMajor \in {3, 4}
  /\ apiKey \in BOOLEAN
  /\ pc = "idle"
  /\ req = NoRequest
  /\ user = NoUser
  /\ signedUrl = NoUrl
  /\ elapsed = 0
  /\ timerArmed = FALSE
  /\ aborted = FALSE
  /\ res = [ok |-> FALSE, status |-> 0]
  /\ payload = NoPayload
  /\ rawText = NoText
  /\ raw = Scalar("undefined")
  /\ parsed = NoParsed
  /\ calls = <<>>
  /\ rows = table
  /\ response = NoResponse
  /\ objects = bucket
  /\ nextId = Len(rows) + 1
  /\ apiReq = NoApiRequest
  /\ apiResponse = NoApiResponse
  /\ modelInput = Missing
  /\ del = NoDelete
  /\ patchBody = NoPatchBody
  /\ addStatus = "idle"
  /\ addMessage = NoMessage
  /\ addPc = "idle"
  /\ clientLeft = 0
  /\ submits = 0
  /\ runs = [i \in 1..MaxSubmits |-> NoRun]
  /\ listPc = "mounting"
  /\ listRows = <<>>
  /\ deletingIds = {}
  /\ listError = ""
  /\ editingId = 0
  /\ draft = NoPatchFields
  /\ saving = FALSE
  /\ deletes = [i \in 1..ListSize |-> NoDeleteCall]
  /\ save = NoSave
  /\ racers = [k \in Racers |-> NoRacer]

\* the table holds no row or one row of another user; the bucket holds the
\* uploaded images
Init == \E table \in {<<>>, <<EarlierRow>>} : InitWith(table, UploadedPaths)

\* return NextResponse.json(...): the invocation is over
Respond(r) ==
  /\ response' = r
  /\ pc' = "done"

\* lines 500-516: the bearer token is read; without one 401, else getUser
Receive ==
  /\ pc = "idle"
  /\ \E r \in Requests :
       /\ req' = r
       /\ IF r.token = NoToken
          THEN Respond(ErrorResponse(401, MsgMissingToken))
          ELSE pc' = "auth" /\ UNCHANGED response
  /\ UNCHANGED <<zodMajor, apiKey, payload, user, signedUrl, elapsed,
                 timerArmed, aborted, res, rawText, raw, parsed, calls, rows>>
  /\ UNCHANGED <<apiVars, uiVars>>

\* AuthReturn without BodySchema.parse: any JSON body is taken to signing
AuthReturn_noBodyCheck ==
  /\ pc = "auth"
  /\ \E u \in {TokenUser(req.token), NoUser} :
       /\ user' = u
       /\ IF u = NoUser
          THEN Respond(ErrorResponse(401, MsgUnauthorized)) /\ UNCHANGED calls
          ELSE IF ~req.json
          THEN Respond(ErrorResponse(400, MsgBodySyntax)) /\ UNCHANGED calls
          ELSE /\ calls' = Append(calls, "sign")
               /\ pc' = "signing"
               /\ UNCHANGED response
  /\ UNCHANGED <<zodMajor, apiKey, payload, req, signedUrl, elapsed,
                 timerArmed, aborted, res, rawText, raw, parsed, rows>>
  /\ UNCHANGED <<apiVars, uiVars>>

\* lines 516-529: getUser answers; 401 without a user; the body is parsed
\* (a throw is caught at 568: 400); createSignedUrl is issued
AuthReturn ==
  /\ pc = "auth"
  /\ \E u \in {TokenUser(req.token), NoUser} :
       /\ user' = u
       /\ IF u = NoUser
          THEN Respond(ErrorResponse(401, MsgUnauthorized)) /\ UNCHANGED calls
          ELSE IF ~req.json
          THEN Respond(ErrorResponse(400, MsgBodySyntax)) /\ UNCHANGED calls
          ELSE IF ~BodySchema(req).ok
          THEN Respond(ErrorResponse(400, MsgBodyZod)) /\ UNCHANGED calls
          ELSE /\ calls' = Append(calls, "sign")
               /\ pc' = "signing"
               /\ UNCHANGED response
  /\ UNCHANGED <<zodMajor, apiKey, payload, req, signedUrl, elapsed,
                 timerArmed, aborted, res, rawText, raw, parsed, rows>>
  /\ UNCHANGED <<apiVars, uiVars>>

\* SignReturn without the check of signed?.signedUrl: the model is called
\* although the signing returned no URL
SignReturn_noUrlCheck ==
  /\ pc = "signing"
  /\ \E outcome \in {"url", "error", "nourl"} :
       IF outcome = "error"
       THEN /\ Respond(ErrorResponse(500, MsgObjectNotFound))
            /\ UNCHANGED <<signedUrl, calls, timerArmed, elapsed>>
       ELSE /\ signedUrl' =
                 (IF outcome = "nourl" THEN NoUrl
                  ELSE createSignedUrl(BodySchema(req).imagePath,
                                       SignedUrlTtl))
            /\ IF ~apiKey
               THEN /\ Respond(ErrorResponse(400, MsgMissingKey))
                    /\ UNCHANGED <<calls, timerArmed, elapsed>>
               ELSE /\ timerArmed' = TRUE
                    /\ elapsed' = 0
                    /\ calls' = Append(calls, "model")
                    /\ pc' = "fetching"
                    /\ UNCHANGED response
  /\ UNCHANGED <<zodMajor, apiKey, payload, req, user, aborted, res, rawText,
                 raw, parsed, rows>>
  /\ UNCHANGED <<apiVars, uiVars>>

\* lines 531-541 and 386-464: the signing answers; 500 on an error or no
\* URL; callOpenAiVision throws without an API key (400), else arms the
\* 60 s timer and issues the fetch
SignReturn ==
  /\ pc = "signing"
  /\ \E outcome \in {"url", "error", "nourl"} :
       IF outcome = "error"
       THEN /\ Respond(ErrorResponse(500, MsgObjectNotFound))
            /\ UNCHANGED <<signedUrl, calls, timerArmed, elapsed>>
       ELSE IF outcome = "nourl"
       THEN /\ Respond(ErrorResponse(500, MsgNoSignedUrl))
            /\ UNCHANGED <<signedUrl, calls, timerArmed, elapsed>>
       ELSE /\ signedUrl' = createSignedUrl(BodySchema(req).imagePath,
                                            SignedUrlTtl)
            /\ IF ~apiKey
               THEN /\ Respond(ErrorResponse(400, MsgMissingKey))
                    /\ UNCHANGED <<calls, timerArmed, elapsed>>
               ELSE /\ timerArmed' = TRUE
                    /\ elapsed' = 0
                    /\ calls' = Append(calls, "model")
                    /\ pc' = "fetching"
                    /\ UNCHANGED response
  /\ UNCHANGED <<zodMajor, apiKey, payload, req, user, aborted, res, rawText,
                 raw, parsed, rows>>
  /\ UNCHANGED <<apiVars, uiVars>>

\* time passes while the model call is in flight; an armed timer does not
\* let the clock pass its deadline without firing
Tick ==
  /\ pc \in {"fetching", "reading"}
  /\ LET limit == IF timerArmed THEN Timeout ELSE MaxClock
     IN /\ elapsed < limit
        /\ elapsed' = IF elapsed + TickStep < limit THEN elapsed + TickStep
                      ELSE limit
  /\ UNCHANGED <<zodMajor, apiKey, payload, pc, req, user, signedUrl,
                 timerArmed, aborted, res, rawText, raw, parsed, calls, rows,
                 response>>
  /\ UNCHANGED <<apiVars, uiVars>>

\* TimerFires with the AbortError swallowed: the pipeline goes on with an
\* empty object as the model's output and issues the insert
TimerFires_swallowed ==
  /\ pc = "fetching"
  /\ timerArmed
  /\ elapsed = Timeout
  /\ timerArmed' = FALSE
  /\ aborted' = TRUE
  /\ elapsed' = 0
  /\ rawText' = JsonText(Object(NoMembers))
  /\ raw' = Object(NoMembers)
  /\ parsed' = ReceiptSchema(Object(NoMembers))
  /\ calls' = Append(calls, "insert")
  /\ pc' = "inserting"
  /\ UNCHANGED <<zodMajor, apiKey, payload, req, user, signedUrl, res, rows,
                 response>>
  /\ UNCHANGED <<apiVars, uiVars>>

\* line 435: the timer fires, controller.abort() rejects the pending fetch
\* with an AbortError, caught at 568
TimerFires ==
  /\ pc = "fetching"
  /\ timerArmed
  /\ elapsed = Timeout
  /\ timerArmed' = FALSE
  /\ aborted' = TRUE
  /\ elapsed' = 0
  /\ Respond(ErrorResponse(400, MsgAborted))
  /\ UNCHANGED <<zodMajor, apiKey, payload, req, user, signedUrl, res,
                 rawText, raw, parsed, calls, rows>>
  /\ UNCHANGED <<apiVars, uiVars>>

\* line 437: the fetch rejects (network); line 466 is not reached
FetchFails ==
  /\ pc = "fetching"
  /\ elapsed' = 0
  /\ Respond(ErrorResponse(400, MsgFetchFailed))
  /\ UNCHANGED <<zodMajor, apiKey, payload, req, user, signedUrl, timerArmed,
                 aborted, res, rawText, raw, parsed, calls, rows>>
  /\ UNCHANGED <<apiVars, uiVars>>

\* lines 437-473: the response headers arrive, fetch resolves and
\* clearTimeout runs; the body is awaited next (res.text() or res.json())
FetchResolves ==
  /\ pc = "fetching"
  /\ \E ok \in BOOLEAN :
       res' = [ok |-> ok, status |-> IF ok THEN 200 ELSE 500]
  /\ timerArmed' = FALSE
  /\ pc' = "reading"
  /\ UNCHANGED <<zodMajor, apiKey, payload, req, user, signedUrl, elapsed,
                 aborted, rawText, raw, parsed, calls, rows, response>>
  /\ UNCHANGED <<apiVars, uiVars>>

\* lines 468-471: the body of a non-2xx response was read (or the read
\* failed: ""), the Error thrown is caught at 568
ErrorBodyRead ==
  /\ pc = "reading"
  /\ ~res.ok
  /\ \E text \in ErrorBodies :
       Respond(ErrorResponse(400, IF text # "" THEN text ELSE MsgOpenAiFailed))
  /\ elapsed' = 0
  /\ UNCHANGED <<zodMajor, apiKey, payload, req, user, signedUrl, timerArmed,
                 aborted, res, rawText, raw, parsed, calls, rows>>
  /\ UNCHANGED <<apiVars, uiVars>>

\* line 473: res.json() rejects, the body is not JSON; caught at 568
BodyNotJson ==
  /\ pc = "reading"
  /\ res.ok
  /\ elapsed' = 0
  /\ Respond(ErrorResponse(400, MsgEnvelopeSyntax))
  /\ UNCHANGED <<zodMajor, apiKey, payload, req, user, signedUrl, timerArmed,
                 aborted, res, rawText, raw, parsed, calls, rows>>
  /\ UNCHANGED <<apiVars, uiVars>>

\* lines 473-496 and 543-561: the envelope was read; the text is extracted,
\* parsed and normalized (each throw is caught at 568) and the insert is
\* issued
BodyRead ==
  /\ pc = "reading"
  /\ res.ok
  /\ elapsed' = 0
  /\ \E pl \in Payloads :
       /\ payload' = pl
       /\ LET x == ExtractText(pl)
              j == JSONparse(x.text)
              p == ReceiptSchema(j.v)
          IN IF ~x.found
             THEN /\ Respond(ErrorResponse(400, MsgMissingOutput))
                  /\ UNCHANGED <<rawText, raw, parsed, calls>>
             ELSE IF ~j.ok
             THEN /\ rawText' = x.text
                  /\ Respond(ErrorResponse(400,
                       IF TrimmedNonEmpty(x.text) THEN MsgOutputSyntax
                       ELSE MsgOutputEnd))
                  /\ UNCHANGED <<raw, parsed, calls>>
             ELSE IF ~p.ok
             THEN /\ rawText' = x.text
                  /\ raw' = j.v
                  /\ parsed' = p
                  /\ Respond(ErrorResponse(400, MsgReceiptZod))
                  /\ UNCHANGED calls
             ELSE /\ rawText' = x.text
                  /\ raw' = j.v
                  /\ parsed' = p
                  /\ calls' = Append(calls, "insert")
                  /\ pc' = "inserting"
                  /\ UNCHANGED response
  /\ UNCHANGED <<zodMajor, apiKey, req, user, signedUrl, timerArmed, aborted,
                 res, rows>>
  /\ UNCHANGED <<apiVars, uiVars>>

\* lines 546-567: the insert answers with the stored row, or with an error
InsertReturn ==
  /\ pc = "inserting"
  /\ \E stored \in BOOLEAN :
       IF stored
       THEN LET txn == InsertedRow(Len(rows) + 1, user, BodySchema(req),
                                   parsed.f)
            IN /\ rows' = Append(rows, txn)
               /\ Respond(OkResponse(txn))
       ELSE /\ Respond(ErrorResponse(500, MsgInsertFailed))
            /\ UNCHANGED rows
  /\ UNCHANGED <<zodMajor, apiKey, payload, req, user, signedUrl, elapsed,
                 timerArmed, aborted, res, rawText, raw, parsed, calls>>
  /\ UNCHANGED <<apiVars, uiVars>>

Next ==
  \/ Receive
  \/ AuthReturn
  \/ SignReturn
  \/ Tick
  \/ TimerFires
  \/ FetchFails
  \/ FetchResolves
  \/ ErrorBodyRead
  \/ BodyNotJson
  \/ BodyRead
  \/ InsertReturn

Spec == Init /\ [][Next]_vars

(***************************************************************************)
(* The routes on the transactions table and the bucket: GET and DELETE     *)
(* /api/transactions (route.ts 31-121), PATCH (123-235), GET of an image   *)
(* URL (266-310) and POST /api/process (499-574) as one step. DELETE has   *)
(* three awaits that change state and is taken await by await.             *)
(***************************************************************************)
\* the rows ever inserted
MaxId == 2

\* the ids a request may name (0: none)
Ids == 0..MaxId

\* the requests to these routes: a bearer token, the id named, and
\* whether the first database call fails; every id by each user, and one
\* request without token and one failing call per user
ApiCalls ==
  {[token |-> t, id |-> id, dbError |-> FALSE] :
     t \in {"tokenA", "tokenB"}, id \in Ids}
    \cup {[token |-> NoToken, id |-> 1, dbError |-> FALSE]}
    \cup {[token |-> t, id |-> 1, dbError |-> TRUE] :
            t \in {"tokenA", "tokenB"}}

MsgMissingId == "Missing transaction id."
MsgMissingQueryId == "Missing id."
MsgNotFound == "Not found."
MsgNoImage == "No image available."
MsgNoFields == "No fields to update."
MsgPatchZod == "ZodError: patch body"
MsgDbError == "database error"
MsgStorageError == "storage error"

\* getUserFromRequest (route.ts 5-29): the error of a request without user
AuthError(token) ==
  IF token = NoToken THEN MsgMissingToken ELSE MsgUnauthorized

\* .eq("id", id) alone: the positions of the rows a query without the
\* user filter would match
MatchRow_noUserFilter(id, u) ==
  {i \in 1..Len(rows) : rows[i].id = id}

\* .eq("id", id).eq("user_id", user.id): the positions of the matching rows
MatchRow(id, u) ==
  {i \in 1..Len(rows) : rows[i].id = id /\ rows[i].user_id = u}

\* .maybeSingle(): the one matching row
Single(m) == rows[CHOOSE i \in m : TRUE]

\* the table without the row at position i
RemoveAt(seq, i) == SubSeq(seq, 1, i - 1) \o SubSeq(seq, i + 1, Len(seq))

\* .insert(row) that replaces the caller's row of the same image
Insert_upsert(table, row) ==
  LET same == {i \in 1..Len(table) :
                 /\ table[i].user_id = row.user_id
                 /\ table[i].image_path = row.image_path}
  IN IF same = {} THEN Append(table, row)
     ELSE [i \in 1..Len(table) |-> IF i \in same THEN row ELSE table[i]]

\* .insert(row)
Insert(table, row) == Append(table, row)

\* .eq("user_id", u).order("created_at", { ascending: false })
RowsOf(u) ==
  LET mine == {i \in 1..Len(rows) : rows[i].user_id = u}
      F[i \in 0..Len(rows)] ==
        IF i = 0 THEN <<>>
        ELSE IF i \in mine THEN <<rows[i]>> \o F[i - 1] ELSE F[i - 1]
  IN F[Len(rows)]

\* GET /api/transactions (route.ts 31-50)
List ==
  /\ \E c \in {a \in ApiCalls : a.id = 1} :
       LET u == TokenUser(c.token)
       IN /\ apiReq' = ApiRequest("list", u, 0, Missing)
          /\ apiResponse' =
               IF u = NoUser THEN ApiError(401, AuthError(c.token))
               ELSE IF c.dbError THEN ApiError(500, MsgDbError)
               ELSE ApiResponse(200, "", RowsOf(u), NoUrl)
  /\ modelInput' = Missing
  /\ patchBody' = NoPatchBody
  /\ UNCHANGED <<zodMajor, apiKey, rows, objects, nextId, del>>
  /\ UNCHANGED <<flowVars, uiVars>>

\* GET of an image URL (route.ts 266-310)
ImageUrl ==
  /\ \E c \in ApiCalls :
       LET u == TokenUser(c.token)
           id == c.id
           m == MatchRow(id, u)
       IN /\ apiReq' = ApiRequest("image", u, id, Missing)
          /\ apiResponse' =
               IF u = NoUser THEN ApiError(401, AuthError(c.token))
               ELSE IF id = 0 THEN ApiError(400, MsgMissingQueryId)
               ELSE IF c.dbError THEN ApiError(500, MsgDbError)
               ELSE IF m = {} THEN ApiError(404, MsgNotFound)
               ELSE IF Single(m).image_path = Missing
               THEN ApiError(404, MsgNoImage)
               ELSE IF Single(m).image_path \notin objects
               THEN ApiError(500, MsgObjectNotFound)
               ELSE ApiResponse(200, "", <<>>,
                      createSignedUrl(Single(m).image_path, SignedUrlTtl))
  /\ modelInput' = Missing
  /\ patchBody' = NoPatchBody
  /\ UNCHANGED <<zodMajor, apiKey, rows, objects, nextId, del>>
  /\ UNCHANGED <<flowVars, uiVars>>

\* the POST requests: user A, or nobody, names an uploaded image, its own
\* or the other user's; and the bodies BodySchema rejects
ProcessRequests ==
  [token : {NoToken, "tokenA"}, json : {TRUE}, imagePath : UploadedPaths,
   sourceType : {"upload"}]
    \cup {[token |-> "tokenA", json |-> FALSE, imagePath |-> Missing,
           sourceType |-> Missing],
          [token |-> "tokenA", json |-> TRUE, imagePath |-> "",
           sourceType |-> "upload"],
          [token |-> "tokenA", json |-> TRUE,
           imagePath |-> "A/2024-03/r1.jpg", sourceType |-> "scan"]}

\* how the model call and the insert go: the call fails, the model answers
\* a text that is not JSON, the insert fails, the row is stored
ProcessRuns ==
  {[data |-> NoPayload, answered |-> FALSE, stored |-> FALSE],
   [data |-> Payload(NotJsonText, <<>>), answered |-> TRUE, stored |-> FALSE],
   [data |-> Payload(JsonText(Object(Costco)), <<>>), answered |-> TRUE,
    stored |-> FALSE],
   [data |-> Payload(JsonText(Object(Costco)), <<>>), answered |-> TRUE,
    stored |-> TRUE]}

\* POST /api/process (route.ts 499-574) from the request to the response:
\* the response, whether the signed URL went to the model, the row to insert
ProcessOutcome(r, data, answered, stored) ==
  LET u == TokenUser(r.token)
      body == BodySchema(r)
      x == ExtractText(data)
      j == JSONparse(x.text)
      p == ReceiptSchema(j.v)
      txn == InsertedRow(nextId, u, body, p.f)
      Failed(status, error, sent) ==
        [response |-> ApiError(status, error), sent |-> sent, row |-> <<>>]
  IN IF u = NoUser THEN Failed(401, AuthError(r.token), FALSE)
     ELSE IF ~r.json THEN Failed(400, MsgBodySyntax, FALSE)
     ELSE IF ~body.ok THEN Failed(400, MsgBodyZod, FALSE)
     ELSE IF body.imagePath \notin objects
     THEN Failed(500, MsgObjectNotFound, FALSE)
     ELSE IF ~apiKey THEN Failed(400, MsgMissingKey, FALSE)
     ELSE IF ~answered THEN Failed(400, MsgOpenAiFailed, TRUE)
     ELSE IF ~x.found THEN Failed(400, MsgMissingOutput, TRUE)
     ELSE IF ~j.ok THEN Failed(400, SyntaxErrorMessage(x.text), TRUE)
     ELSE IF ~p.ok THEN Failed(400, MsgReceiptZod, TRUE)
     ELSE IF ~stored THEN Failed(500, MsgInsertFailed, TRUE)
     ELSE [response |-> ApiResponse(200, "", <<txn>>, NoUrl), sent |-> TRUE,
           row |-> <<txn>>]

Process ==
  /\ nextId <= MaxId
  /\ \E r \in ProcessRequests, run \in ProcessRuns :
       LET o == ProcessOutcome(r, run.data, run.answered, run.stored)
       IN /\ apiReq' = ApiRequest("process", TokenUser(r.token), 0,
                                  r.imagePath)
          /\ apiResponse' = o.response
          /\ modelInput' = IF o.sent THEN r.imagePath ELSE Missing
          /\ IF o.row = <<>> THEN UNCHANGED <<rows, nextId>>
             ELSE /\ rows' = Insert(rows, o.row[1])
                  /\ nextId' = nextId + 1
  /\ patchBody' = NoPatchBody
  /\ UNCHANGED <<zodMajor, apiKey, objects, del>>
  /\ UNCHANGED <<flowVars, uiVars>>

\* a new merchant with a blank currency
MerchantPatch ==
  [NoPatchFields EXCEPT !["merchant"] = Str(sFood),
                        !["currency"] = Str(sBlank)]

\* the PATCH requests: a bearer token, a body, whether the update fails;
\* the new merchant for every id by each user, and the bodies the handler
\* rejects: no field, a total_cents that is no number, an unknown key, no
\* JSON object
PatchCalls ==
  {[token |-> t, body |-> PatchBody(id, MerchantPatch, FALSE),
    updError |-> FALSE] : t \in {"tokenA", "tokenB"}, id \in Ids}
    \cup {[token |-> "tokenA", body |-> b, updError |-> FALSE] :
            b \in {PatchBody(1, NoPatchFields, FALSE),
                   PatchBody(1, [NoPatchFields EXCEPT
                                   !["total_cents"] = Bool], FALSE),
                   PatchBody(1, MerchantPatch, TRUE),
                   NoPatchBody}}
    \cup {[token |-> "tokenA", body |-> PatchBody(1, MerchantPatch, FALSE),
           updError |-> TRUE],
          [token |-> NoToken, body |-> PatchBody(1, MerchantPatch, FALSE),
           updError |-> FALSE]}

\* Math.round of a finite number
MathRound(v) == Num(((v.h + 50) \div 100) * 100)

\* the transform of merchant and of category (route.ts 126-135, 167-175)
PatchText(v) ==
  IF v = Undefined \/ v = Null THEN v
  ELSE IF Trim(v.s) = <<>> THEN Null ELSE Str(Trim(v.s))

\* the transform of txn_date (route.ts 136-145)
PatchDate(v) ==
  IF v = Undefined \/ v = Null THEN v
  ELSE IF Trim(v.s) = <<>> THEN Null
  ELSE IF DateRegexTest(Trim(v.s)) THEN Str(Trim(v.s)) ELSE Null

\* the transform of total_cents (route.ts 146-156)
PatchCents(v) ==
  IF v = Undefined \/ v = Null THEN v
  ELSE LET n == IF IsNumber(v) THEN v ELSE StringToNumber(v.s)
       IN IF ~IsFinite(n) THEN Null
          ELSE IF MathRound(n).h < 0 THEN Null ELSE MathRound(n)

\* the transform of currency (route.ts 157-166)
PatchCurrency(v) ==
  IF v = Undefined \/ v = Null THEN v
  ELSE IF Trim(v.s) = <<>> THEN Null ELSE Str(ToUpperCase(Trim(v.s)))

\* PatchBodySchema.parse(body) (route.ts 123-177): ok = FALSE stands for the
\* throw
PatchBodySchema(b) ==
  LET typed(k) ==
        \/ b.f[k] \in {Undefined, Null}
        \/ IsString(b.f[k])
        \/ k = "total_cents" /\ ZNumberType(b.f[k])
  IN [ok |-> b.object /\ b.id # 0 /\ ~b.extra /\ \A k \in PatchKeys : typed(k),
      id |-> b.id,
      f |-> [k \in PatchKeys |->
               CASE k = "txn_date" -> PatchDate(b.f[k])
                 [] k = "total_cents" -> PatchCents(b.f[k])
                 [] k = "currency" -> PatchCurrency(b.f[k])
                 [] OTHER -> PatchText(b.f[k])]]

\* .update(update) that writes every updatable column, NULL for the keys
\* update does not have
Updated_allKeys(row, update) ==
  LET set(k) == IF update[k] = Undefined THEN Null ELSE update[k]
  IN [row EXCEPT !.merchant = set("merchant"),
                 !.txn_date = set("txn_date"),
                 !.total_cents = set("total_cents"),
                 !.currency = set("currency"),
                 !.category = set("category")]

\* .update(update) on one row: the columns update has are set
Updated(row, update) ==
  LET set(k, old) == IF update[k] = Undefined THEN old ELSE update[k]
  IN [row EXCEPT !.merchant = set("merchant", @),
                 !.txn_date = set("txn_date", @),
                 !.total_cents = set("total_cents", @),
                 !.currency = set("currency", @),
                 !.category = set("category", @)]

\* PATCH /api/transactions (route.ts 179-235)
Patch ==
  /\ \E c \in PatchCalls :
       LET u == TokenUser(c.token)
           b == c.body
           valid == PatchBodySchema(b)
           m == MatchRow(valid.id, u)
           i == CHOOSE n \in m : TRUE
           Fail(status, error) ==
             /\ apiResponse' = ApiError(status, error)
             /\ UNCHANGED rows
       IN /\ apiReq' = ApiRequest("patch", u, b.id, Missing)
          /\ patchBody' = b
          /\ IF u = NoUser THEN Fail(401, AuthError(c.token))
             ELSE IF ~valid.ok THEN Fail(400, MsgPatchZod)
             ELSE IF \A k \in PatchKeys : valid.f[k] = Undefined
             THEN Fail(400, MsgNoFields)
             ELSE IF c.updError THEN Fail(500, MsgDbError)
             ELSE IF m = {} THEN Fail(404, MsgNotFound)
             ELSE /\ rows' = [rows EXCEPT ![i] = Updated(@, valid.f)]
                  /\ apiResponse' =
                       ApiResponse(200, "", <<Updated(rows[i], valid.f)>>,
                                   NoUrl)
  /\ modelInput' = Missing
  /\ UNCHANGED <<zodMajor, apiKey, objects, nextId, del>>
  /\ UNCHANGED <<flowVars, uiVars>>

\* DELETE /api/transactions (route.ts 52-86): the request is read and the
\* select answers
DeleteSelect ==
  /\ del.pc = "idle"
  /\ \E c \in ApiCalls :
       LET u == TokenUser(c.token)
           id == c.id
           m == MatchRow(id, u)
           Fail(status, error) ==
             /\ apiResponse' = ApiError(status, error)
             /\ del' = NoDelete
       IN /\ apiReq' = ApiRequest("delete", u, id, Missing)
          /\ IF u = NoUser THEN Fail(401, AuthError(c.token))
             ELSE IF id = 0 THEN Fail(400, MsgMissingId)
             ELSE IF c.dbError THEN Fail(500, MsgDbError)
             ELSE IF m = {} THEN Fail(404, MsgNotFound)
             ELSE /\ del' = Deletion(IF Single(m).image_path # Missing
                                     THEN "removing" ELSE "deleting",
                                     u, id, Single(m).image_path, Missing)
                  /\ apiResponse' = NoApiResponse
  /\ modelInput' = Missing
  /\ patchBody' = NoPatchBody
  /\ UNCHANGED <<zodMajor, apiKey, rows, objects, nextId>>
  /\ UNCHANGED <<flowVars, uiVars>>

\* lines 90-102: storage.remove answers: the object is removed, or it was
\* gone already ("not found": the handler goes on), or the call failed
DeleteRemove ==
  /\ del.pc = "removing"
  /\ apiReq' = ApiRequest("delete", del.user, del.id, Missing)
  /\ \E storageError \in BOOLEAN :
       IF storageError
       THEN /\ apiResponse' = ApiError(500, MsgStorageError)
            /\ del' = [del EXCEPT !.pc = "idle"]
            /\ UNCHANGED objects
       ELSE /\ objects' = objects \ {del.image_path}
            /\ del' = [del EXCEPT !.pc = "deleting",
                                  !.removed = IF del.image_path \in objects
                                              THEN del.image_path
                                              ELSE Missing]
            /\ apiResponse' = NoApiResponse
  /\ modelInput' = Missing
  /\ patchBody' = NoPatchBody
  /\ UNCHANGED <<zodMajor, apiKey, rows, nextId>>
  /\ UNCHANGED <<flowVars, uiVars>>

\* lines 104-120: the delete of the row answers
DeleteRow ==
  /\ del.pc = "deleting"
  /\ apiReq' = ApiRequest("delete", del.user, del.id, Missing)
  /\ del' = [del EXCEPT !.pc = "idle"]
  /\ \E delError \in BOOLEAN :
       LET m == MatchRow(del.id, del.user)
       IN IF delError
          THEN apiResponse' = ApiError(500, MsgDbError) /\ UNCHANGED rows
          ELSE IF m = {}
          THEN apiResponse' = ApiError(404, MsgNotFound) /\ UNCHANGED rows
          ELSE /\ rows' = RemoveAt(rows, CHOOSE i \in m : TRUE)
               /\ apiResponse' = ApiResponse(200, "", <<>>, NoUrl)
  /\ modelInput' = Missing
  /\ patchBody' = NoPatchBody
  /\ UNCHANGED <<zodMajor, apiKey, objects, nextId>>
  /\ UNCHANGED <<flowVars, uiVars>>

NextApi ==
  \/ List
  \/ ImageUrl
  \/ Process
  \/ Patch
  \/ DeleteSelect
  \/ DeleteRemove
  \/ DeleteRow

\* the routes run with the API key of the model configured; the receipt the
\* model answers here has every key, so the zod majors agree on it
InitApi == Init /\ apiKey /\ zodMajor = 4

SpecApi == InitApi /\ [][NextApi]_vars

(***************************************************************************)
(* Properties                                                              *)
(***************************************************************************)
\* the normalizer ran: the model's text was JSON and ReceiptSchema parsed it
Normalized == rawText.k = "json" /\ pc \in {"inserting", "done"}

\* the shape YYYY-MM-DD: four digits, dash, two digits, dash, two digits
IsYMD(s) ==
  /\ Len(s) = 10
  /\ \A i \in 1..10 : IF i \in {5, 8} THEN s[i] = "-" ELSE s[i] \in Digits

\* no value: null, or a member that is not there
Absent(v) == v = Null \/ v = Undefined

\* a value of the key's declared type and range
WellTyped(k, v) ==
  CASE k \in {"merchant", "category", "notes"} -> IsString(v)
    [] k = "txn_date" -> IsString(v) /\ IsYMD(v.s)
    [] k = "total_cents" -> IsInteger(v) /\ v.h >= 0
    [] k = "currency" -> IsString(v)
    [] k = "confidence" -> IsFinite(v) /\ v.h >= 0 /\ v.h <= 100

\* a value of the wrong type or out of range for the key
Malformed(k, v) == ~Absent(v) /\ ~WellTyped(k, v)

\* the keys at which the object o differs from the base b
DiffKeys(o, b) == {k \in Keys : o.f[k] # b[k]}

\* C1: normalization is total: whatever JSON value the model's text holds,
\* ReceiptSchema.parse does not throw and each of the seven fields of its
\* result is a correctly typed value or the absent-marker (currency: a
\* string, its default when nothing usable was given).
C1_NormalizerTotal ==
  Normalized =>
    /\ parsed.ok
    /\ \A k \in Fields \ {"currency"} :
         parsed.f[k] = Null \/ WellTyped(k, parsed.f[k])
    /\ IsString(parsed.f["currency"])

\* C2: fields are normalized independently: when the model's object is a
\* base object with one field replaced by a malformed value, that field
\* normalizes to the absent-marker (currency: the default), the other six
\* fields normalize as in the base object, and the run succeeds as the run
\* on the base object does.
C2_FieldsIndependent ==
  (Normalized /\ raw.t = "object") =>
    \A b \in Bases : \A k \in Fields :
      (DiffKeys(raw, b) = {k} /\ Malformed(k, raw.f[k])) =>
        /\ parsed.ok = ReceiptSchema(Object(b)).ok
        /\ parsed.f[k] = FieldDefault(k)
        /\ \A g \in Fields \ {k} :
             parsed.f[g] = ReceiptSchema(Object(b)).f[g]

\* the table without the row the invocation added is a table of Init
RowAdded ==
  /\ Len(rows) >= 1
  /\ SubSeq(rows, 1, Len(rows) - 1) \in {<<>>, <<EarlierRow>>}

\* the invocation left the table as it found it
NoRowAdded == rows \in {<<>>, <<EarlierRow>>}

RECURSIVE IsPrefix(_, _)
IsPrefix(s, t) ==
  \/ s = <<>>
  \/ /\ t # <<>>
     /\ Head(s) = Head(t)
     /\ IsPrefix(Tail(s), Tail(t))

\* C3: the external calls of an invocation are issued in the order sign,
\* model, insert, each at most once; the model request only after the
\* signing returned a URL, the insert only after the model's text was
\* parsed and normalized; a failed step is not issued again.
C3_CallOrder ==
  /\ IsPrefix(calls, <<"sign", "model", "insert">>)
  /\ (pc = "signing" => calls = <<"sign">>)
  /\ (Len(calls) >= 2 => signedUrl # NoUrl /\ pc # "signing")
  /\ (Len(calls) >= 3 => rawText.k = "json" /\ parsed.ok
                         /\ pc \in {"inserting", "done"})
  /\ (pc = "done" /\ response.status = 200 => Len(calls) = 3)

\* C3 witness: the insert failed after the three calls, none was repeated
C3_Witness ==
  /\ pc = "done"
  /\ calls = <<"sign", "model", "insert">>
  /\ response = ErrorResponse(500, MsgInsertFailed)

\* C4: while the model's answer is awaited the 60 s timer is armed and its
\* deadline has not passed; when the timer aborted the model call, the
\* invocation ended in an error and issued no insert; the table is as it
\* was.
C4_TimeoutNoInsert ==
  /\ pc = "fetching" => timerArmed /\ elapsed <= Timeout
  /\ aborted =>
       /\ pc = "done"
       /\ response.status \notin {0, 200}
       /\ response.transaction = <<>>
       /\ calls = <<"sign", "model">>
       /\ NoRowAdded

\* C4 witness: the model call was aborted at 60 s
C4_Witness == aborted /\ pc = "done" /\ calls = <<"sign", "model">>

\* the response of an invocation whose model call was aborted
TimeoutResponse == ErrorResponse(400, MsgAborted)

\* C5: a timeout is a distinct outcome: the response of an invocation whose
\* model call was aborted at 60 s is returned by no invocation that ended
\* otherwise (a non-2xx model response, an empty model response, a parse
\* failure of the model's text, a rejected request body).
C5_TimeoutDistinct ==
  pc = "done" =>
    /\ (aborted => response = TimeoutResponse)
    /\ (response = TimeoutResponse => aborted)

\* C6: the model call is bounded: while the request is in flight (headers
\* or body still awaited) no more than 60 s have passed since it was
\* issued.
C6_ModelCallBounded ==
  pc \in {"fetching", "reading"} => elapsed <= Timeout

\* a well-formed receipt object: the seven keys are there, each null or of
\* its type and range, the currency a code in any letter case
WellFormed(v) ==
  /\ v.t = "object"
  /\ \A k \in Fields \ {"currency"} : v.f[k] = Null \/ WellTyped(k, v.f[k])
  /\ IsString(v.f["currency"])
  /\ v.f["currency"].s # <<>>
  /\ Trim(v.f["currency"].s) = v.f["currency"].s

\* C7: end to end: for an authenticated caller, a valid request and a
\* model text that is a well-formed receipt object, the normalization
\* succeeds and the insert is issued; when the insert succeeds exactly one
\* row was added, its merchant, txn_date, total_cents, category and
\* confidence are the model's values, its currency the model's currency
\* upper-cased, its user_id, source_type and image_path the caller's and
\* the request's, and the response carries that row.
C7_EndToEnd ==
  (Normalized /\ WellFormed(raw)) =>
    /\ parsed.ok
    /\ calls = <<"sign", "model", "insert">>
    /\ (pc = "done" /\ response.status = 200 =>
          LET row == rows[Len(rows)]
          IN /\ RowAdded
             /\ response.transaction = <<row>>
             /\ \A k \in {"merchant", "txn_date", "total_cents", "category",
                          "confidence"} : row[k] = raw.f[k]
             /\ row.currency = Str(ToUpperCase(raw.f["currency"].s))
             /\ row.user_id = TokenUser(req.token)
             /\ row.user_id \in Users
             /\ row.image_path = req.imagePath
             /\ row.source_type =
                  (IF req.sourceType = "screenshot" THEN "screenshot"
                   ELSE "receipt"))

\* C7 witness: the scenario's receipt (currency "cad") was stored as CAD
\* for a request of the legacy source type camera
C7_Witness ==
  /\ pc = "done"
  /\ response.status = 200
  /\ raw = Object(Costco)
  /\ req.sourceType = "camera"
  /\ rows[Len(rows)].currency = CAD
  /\ rows[Len(rows)].total_cents = Num(459900)

\* the model's object has the key k
HasKey(k) == Normalized /\ raw.t = "object" /\ raw.f[k] # Undefined

\* C8 as stated: the normalized txn_date is the input when the input is a
\* string matching exactly dddd-dd-dd, and the absent-marker for every
\* other input.
C8_DateStrict ==
  HasKey("txn_date") =>
    LET v == raw.f["txn_date"]
    IN parsed.f["txn_date"] =
         (IF IsString(v) /\ IsYMD(v.s) THEN v ELSE Null)

\* C8 amended: the normalized txn_date is the input with its surrounding
\* white space trimmed when the trimmed input matches exactly dddd-dd-dd,
\* and the absent-marker for every other input; the field never fails.
C8_DateTrimmed ==
  HasKey("txn_date") =>
    LET v == raw.f["txn_date"]
    IN parsed.f["txn_date"] =
         (IF IsString(v) /\ IsYMD(Trim(v.s)) THEN Str(Trim(v.s))
          ELSE Null)

\* C8 witness: a date padded with white space came out trimmed
C8_Witness ==
  /\ HasKey("txn_date")
  /\ raw.f["txn_date"] = Str(sDatePadded)
  /\ parsed.f["txn_date"] = Str(sDate)
  /\ parsed.ok

\* the number a total_cents input stands for: itself, or Number(string)
AsNumber(v) == IF IsString(v) THEN StringToNumber(v.s) ELSE v

\* C9: a total_cents that is a non-negative integer is kept; one that is
\* negative, not an integer or not finite (as a number, or as a string
\* such as "23.47") normalizes to the absent-marker and the record is
\* still produced.
C9_CentsRange ==
  (HasKey("total_cents") /\ DiffKeys(raw, Costco) = {"total_cents"}) =>
    LET v == raw.f["total_cents"]
        n == AsNumber(v)
    IN /\ (IsNumber(v) /\ IsInteger(v) /\ v.h >= 0 =>
             parsed.f["total_cents"] = v)
       /\ ((IsNumber(v) \/ IsString(v))
             /\ (~IsFinite(n) \/ ~IsInteger(n) \/ n.h < 0) =>
             parsed.f["total_cents"] = Null /\ parsed.ok)

\* C10: the normalized currency is "CAD" when the model's currency is
\* missing, null, not a string or empty after trimming, and the trimmed
\* upper-cased input otherwise.
C10_CurrencyDefault ==
  (Normalized /\ raw.t = "object") =>
    LET v == raw.f["currency"]
    IN parsed.f["currency"] =
         (IF IsString(v) /\ Trim(v.s) # <<>>
          THEN Str(ToUpperCase(Trim(v.s))) ELSE CAD)

\* C11: a confidence inside [0,1], 0 and 1 included, is kept; one outside
\* [0,1] or not finite normalizes to the absent-marker and the record is
\* still produced.
C11_ConfidenceBounds ==
  (HasKey("confidence") /\ DiffKeys(raw, Costco) \subseteq {"confidence"}) =>
    LET v == raw.f["confidence"]
    IN IF ~IsNumber(v) THEN TRUE
       ELSE IF IsFinite(v) /\ v.h >= 0 /\ v.h <= 100
       THEN parsed.f["confidence"] = v /\ parsed.ok
       ELSE parsed.f["confidence"] = Null /\ parsed.ok

\* the request passed authentication and carries a JSON body with an image
\* path and some source type
Authenticated == pc \notin {"idle", "auth"} /\ user \in Users

UsableBody ==
  /\ req.json
  /\ req.imagePath \notin {"", Missing}
  /\ req.sourceType # Missing

\* C12 as stated: whatever source type the request names, the pipeline
\* proceeds; a stored row has source type screenshot for screenshot and
\* receipt for every other value.
C12_SourceTypeFallback ==
  (Authenticated /\ UsableBody) =>
    /\ calls # <<>>
    /\ (pc = "done" /\ response.status = 200 =>
          rows[Len(rows)].source_type =
            (IF req.sourceType = "screenshot" THEN "screenshot"
             ELSE "receipt"))

\* C12 amended: for receipt and the legacy values camera and upload the
\* pipeline proceeds with source type receipt, for screenshot with
\* screenshot; any other value is rejected as bad input (400) before any
\* external call.
C12_SourceTypeEnum ==
  (Authenticated /\ UsableBody) =>
    IF req.sourceType \in {"receipt", "screenshot", "camera", "upload"}
    THEN /\ calls # <<>>
         /\ (pc = "done" /\ response.status = 200 =>
               rows[Len(rows)].source_type =
                 (IF req.sourceType = "screenshot" THEN "screenshot"
                  ELSE "receipt"))
    ELSE /\ calls = <<>>
         /\ pc = "done"
         /\ response.status = 400
         /\ NoRowAdded

\* C12 witness: a row was stored as receipt for the legacy value upload
C12_Witness ==
  /\ pc = "done"
  /\ response.status = 200
  /\ req.sourceType = "upload"
  /\ rows[Len(rows)].source_type = "receipt"

(***************************************************************************)
(* The extraction of the model's text, as the specification words it       *)
(***************************************************************************)
\* the envelope has been read
Extracted == payload # NoPayload

\* the envelope has a top-level text that is not empty after trimming
TopLevelUsable ==
  IsText(payload.output_text) /\ TrimmedNonEmpty(payload.output_text)

\* a text-typed part with a text that is not empty
IsTextPart(part) ==
  part.type = "output_text" /\ IsText(part.text) /\ TrimmedNonEmpty(part.text)

\* a JSON-typed part that carries JSON
IsJsonPart(part) ==
  part.type = "output_json" /\ part.json.t \notin {"null", "undefined"}

\* a part of another type with a text field that is not empty
IsOtherPart(part) ==
  /\ part.type \notin {"output_text", "output_json"}
  /\ IsText(part.text) /\ TrimmedNonEmpty(part.text)

\* the first position of a sequence whose element satisfies a test
FirstIn(set) == CHOOSE i \in set : \A j \in set : i <= j

\* what the preferred part of one item yields, NoText when no part yields
ItemText(item) ==
  LET texts == {i \in 1..Len(item) : IsTextPart(item[i])}
      jsons == {i \in 1..Len(item) : IsJsonPart(item[i])}
      others == {i \in 1..Len(item) : IsOtherPart(item[i])}
  IN IF texts # {} THEN item[FirstIn(texts)].text
     ELSE IF jsons # {} THEN JSONstringify(item[FirstIn(jsons)].json)
     ELSE IF others # {} THEN item[FirstIn(others)].text
     ELSE NoText

\* the text of the first item that yields one
PreferredText ==
  IF TopLevelUsable THEN payload.output_text
  ELSE LET output == payload.output
           items == {i \in 1..Len(output) : ItemText(output[i]) # NoText}
       IN IF items = {} THEN NoText ELSE ItemText(output[FirstIn(items)])

\* the extraction failed with "OpenAI response missing output text/json."
ExtractionFailed == response = ErrorResponse(400, MsgMissingOutput)

\* C13: when the envelope has no usable top-level text and no part has a
\* text that is not empty, but some part is JSON-typed and carries JSON, the
\* extraction returns the serialized JSON of the first such part and does not
\* fail.
C13_JsonFallback ==
  LET parts == Flatten(payload.output)
      jsons == {i \in 1..Len(parts) : IsJsonPart(parts[i])}
  IN (/\ Extracted
      /\ ~TopLevelUsable
      /\ \A i \in 1..Len(parts) :
           ~(IsText(parts[i].text) /\ TrimmedNonEmpty(parts[i].text))
      /\ jsons # {})
       => /\ ~ExtractionFailed
          /\ rawText = JSONstringify(parts[FirstIn(jsons)].json)

\* C14: the extraction returns the text of the preferred part (text-typed
\* with a text that is not empty, else JSON-typed, else any part with a text
\* that is not empty), whatever the order of the parts; so it never returns
\* an empty or blank text when some part yields a text.
C14_FallbackPriority ==
  (Extracted /\ PreferredText # NoText) =>
    (~ExtractionFailed /\ rawText = PreferredText)

(***************************************************************************)
(* Rejected requests                                                       *)
(***************************************************************************)
\* the request is one the handler rejects: no bearer token, a token that
\* getUser does not resolve, a body that is not JSON, no or an empty
\* imagePath, a sourceType outside the accepted four
Rejected ==
  /\ pc # "idle"
  /\ \/ req.token = NoToken
     \/ pc # "auth" /\ user = NoUser
     \/ ~req.json
     \/ req.imagePath \in {"", Missing}
     \/ req.sourceType \notin {"receipt", "screenshot", "camera", "upload"}

\* C15: a rejected request is answered with an error (401 or 400) and no
\* pipeline step runs for it: nothing is signed, the model is not called,
\* nothing is inserted.
C15_RejectedNoStep ==
  Rejected =>
    /\ calls = <<>>
    /\ signedUrl = NoUrl
    /\ payload = NoPayload
    /\ NoRowAdded
    /\ pc \in {"auth", "done"}
    /\ pc = "done" => response.status \in {400, 401} /\ response.error # ""

C15_Witness ==
  /\ pc = "done"
  /\ user \in Users
  /\ req.json
  /\ req.imagePath = ""
  /\ response.status = 400
  /\ calls = <<>>

(***************************************************************************)
(* Classes of error outcomes                                               *)
(***************************************************************************)
\* what the handler answers to a request it rejects (lines 506-521)
InputErrorResponses ==
  {ErrorResponse(401, MsgMissingToken), ErrorResponse(401, MsgUnauthorized),
   ErrorResponse(400, MsgBodySyntax), ErrorResponse(400, MsgBodyZod)}

\* what it answers when the model API fails: no response, a non-2xx
\* response, an envelope that is not JSON or has no text
ApiFailureResponses ==
  {ErrorResponse(400, IF text # "" THEN text ELSE MsgOpenAiFailed) :
     text \in ErrorBodies}
    \cup {ErrorResponse(400, MsgFetchFailed),
          ErrorResponse(400, MsgEnvelopeSyntax),
          ErrorResponse(400, MsgMissingOutput)}

\* the model answered with a text and the text is not JSON
ModelTextInvalid ==
  pc = "done" /\ Extracted /\ ~ExtractionFailed /\ rawText.k # "json"

\* C16: the answer to a model text that is not JSON is an error that differs,
\* in status or message, from every answer to a model-API failure and from
\* every answer to a rejected request.
C16_ParseFailureDistinct ==
  ModelTextInvalid =>
    /\ response.status >= 400
    /\ response \notin InputErrorResponses \cup ApiFailureResponses

(***************************************************************************)
(* The table and the bucket under the routes                               *)
(***************************************************************************)
\* the ids of the rows of a table
IdsOf(table) == {table[i].id : i \in 1..Len(table)}

\* the row of a table with an id
RowWith(table, id) == table[CHOOSE i \in 1..Len(table) : table[i].id = id]

\* the handler of the request of the last step has answered
Answered == apiResponse.status # 0

\* C17: one POST invocation adds exactly one row, the one it answers with,
\* under a new id when it answers 200, and leaves the table as it was when it
\* answers an error; it changes and removes no existing row, so a second run
\* on the same image adds a second row.
C17_ProcessEffect ==
  [][apiReq'.op = "process" =>
       IF apiResponse'.status = 200
       THEN /\ Len(apiResponse'.transactions) = 1
            /\ rows' = Append(rows, apiResponse'.transactions[1])
            /\ apiResponse'.transactions[1].id \notin IdsOf(rows)
            /\ apiResponse'.transactions[1].image_path = apiReq'.imagePath
       ELSE /\ apiResponse'.status >= 400
            /\ rows' = rows]_vars

\* two runs of one user on one image left two rows
C17_Witness ==
  /\ apiReq.op = "process"
  /\ apiResponse.status = 200
  /\ \E i, k \in 1..Len(rows) :
       /\ i < k
       /\ rows[i].user_id = rows[k].user_id
       /\ rows[i].image_path = rows[k].image_path

\* the request of the last step names a row of another user
NamesForeignRow ==
  /\ apiReq.op \in {"delete", "patch", "image"}
  /\ apiReq.user \in Users
  /\ apiReq.id \in IdsOf(rows)
  /\ RowWith(rows, apiReq.id).user_id # apiReq.user

\* what a request answers with belongs to its caller, and a request that
\* names a row of another user is answered not-found (or with the error of
\* a failed database call, or of a body that is not valid)
ReadsOwnRows ==
  /\ \A i \in 1..Len(apiResponse.transactions) :
       apiResponse.transactions[i].user_id = apiReq.user
  /\ (apiReq.op = "image" /\ apiResponse.status = 200) =>
       /\ apiReq.id \in IdsOf(rows)
       /\ RowWith(rows, apiReq.id).user_id = apiReq.user
       /\ RowWith(rows, apiReq.id).image_path = apiResponse.signedUrl.path
  /\ (NamesForeignRow /\ Answered) =>
       \/ apiResponse = ApiError(404, MsgNotFound)
       \/ apiResponse = ApiError(500, MsgDbError)
       \/ apiReq.op = "patch" /\ apiResponse.status = 400

\* C18: a list, delete, PATCH or image-URL request reads, changes and removes
\* only rows whose user_id is its caller; a request that names a row of
\* another user is answered not-found and leaves the row as it was.
C18_RowIsolation ==
  [][/\ ReadsOwnRows'
     /\ \A id \in IdsOf(rows) :
          (id \notin IdsOf(rows') \/ RowWith(rows', id) # RowWith(rows, id))
            => /\ apiReq'.op \in {"delete", "patch"}
               /\ RowWith(rows, id).user_id = apiReq'.user
               /\ id = apiReq'.id]_vars

\* a request named a row of another user and was answered not-found
C18_Witness ==
  /\ NamesForeignRow
  /\ apiReq.op = "patch"
  /\ apiResponse = ApiError(404, MsgNotFound)

\* C19: no request signs a read URL for, sends to the model, or removes an
\* image that was uploaded under the storage path of a user other than its
\* caller.
C19_ImageIsolation ==
  /\ modelInput # Missing => PathOwner(modelInput) = apiReq.user
  /\ apiResponse.signedUrl # NoUrl =>
       PathOwner(apiResponse.signedUrl.path) = apiReq.user
  /\ del.removed # Missing => PathOwner(del.removed) = del.user

\* C20: when a DELETE request has returned, with any outcome, every row with
\* an image_path has its image object in the bucket, and the row whose image
\* the request removed is gone.
C20_DeletedTogether ==
  del.pc = "idle" =>
    /\ \A i \in 1..Len(rows) :
         rows[i].image_path # Missing => rows[i].image_path \in objects
    /\ del.removed # Missing => del.id \notin IdsOf(rows)

(***************************************************************************)
(* The signed URL and the abort timer                                      *)
(***************************************************************************)
\* the model request is in flight: its headers or its body are awaited
ModelCallInFlight == pc \in {"fetching", "reading"}

\* C21: while the model call is in flight, the URL was signed for 600 s, the
\* 60 s abort is pending, and what is left of the URL's validity exceeds the
\* time the abort still leaves to the call.
C21_UrlOutlivesCall ==
  ModelCallInFlight =>
    /\ signedUrl.ttl = 600
    /\ timerArmed
    /\ signedUrl.ttl - elapsed > Timeout - elapsed

(***************************************************************************)
(* The audit payload                                                       *)
(***************************************************************************)
\* the columns that ai_json repeats
AuditedColumns ==
  {"merchant", "txn_date", "total_cents", "currency", "category",
   "confidence"}

\* C22: the row the pipeline has just created carries the normalized record
\* as ai_json: the seven fields are there and the six that are also columns
\* equal the columns.
C22_AuditIsRecord ==
  (pc = "done" /\ response.status = 200) =>
    LET txn == rows[Len(rows)]
    IN /\ \A k \in Fields : txn.ai_json[k] # Undefined
       /\ \A k \in AuditedColumns : txn.ai_json[k] = txn[k]

(***************************************************************************)
(* Numeric strings                                                         *)
(***************************************************************************)
\* a decimal numeral: an optional sign and digits with an optional
\* fraction, white space around it allowed
IsDecimalNumeral(s) ==
  LET t == Trim(s)
      body == IF t # <<>> /\ Head(t) \in {"+", "-"} THEN Tail(t) ELSE t
      d == DotIndex(body)
      ip == IF d = 0 THEN body ELSE SubSeq(body, 1, d - 1)
      fp == IF d = 0 THEN <<>> ELSE SubSeq(body, d + 1, Len(body))
  IN AllDigits(ip) /\ AllDigits(fp) /\ Len(ip) + Len(fp) > 0

\* the number a decimal numeral stands for
DecimalValue(s) ==
  LET t == Trim(s)
      u == UnsignedHundredths(IF Head(t) \in {"+", "-"} THEN Tail(t) ELSE t)
  IN IF Head(t) = "-" THEN Num(0 - u.h) ELSE u

\* the model's object differs from the receipt in the string it gives key k
StringFor(k) ==
  HasKey(k) /\ DiffKeys(raw, Costco) = {k} /\ IsString(raw.f[k])

\* C23: a string given for total_cents or confidence is taken as a number
\* only when it is a decimal numeral, and then the record is what the number
\* itself gives; any other string (empty, blank, hexadecimal, a word)
\* normalizes to the absent-marker and the record is still produced.
C23_NarrowCoercion ==
  \A k \in {"total_cents", "confidence"} :
    StringFor(k) =>
      IF IsDecimalNumeral(raw.f[k].s)
      THEN parsed =
             ReceiptSchema(Object([raw.f EXCEPT
                                     ![k] = DecimalValue(raw.f[k].s)]))
      ELSE parsed.ok /\ parsed.f[k] = Null

(***************************************************************************)
(* Corrections (PATCH)                                                     *)
(***************************************************************************)
\* C24: every stored row's currency is a non-empty upper-cased string, after
\* any runs of the pipeline and any corrections.
C24_CurrencyNeverNull ==
  \A i \in 1..Len(rows) :
    /\ IsString(rows[i].currency)
    /\ rows[i].currency.s # <<>>
    /\ ToUpperCase(rows[i].currency.s) = rows[i].currency.s

\* the columns of a row
Columns ==
  {"id", "user_id", "source_type", "image_path", "merchant", "txn_date",
   "total_cents", "currency", "category", "confidence", "ai_json"}

\* the body has no updatable field, or a key the schema does not know
NothingToUpdate(b) ==
  b.object /\ (b.extra \/ \A k \in PatchKeys : b.f[k] = Undefined)

\* C25: a PATCH changes no row but the one with the body's id and the
\* caller's user_id, and on it only columns among merchant, txn_date,
\* total_cents, currency, category whose keys the body has; a body without
\* an updatable field or with an unknown key changes nothing and is
\* answered 400.
C25_PatchFrame ==
  [][apiReq'.op = "patch" =>
       /\ Len(rows') = Len(rows)
       /\ \A i \in 1..Len(rows) :
            rows'[i] # rows[i] =>
              /\ rows[i].id = patchBody'.id
              /\ rows[i].user_id = apiReq'.user
              /\ \A c \in Columns :
                   rows'[i][c] # rows[i][c] =>
                     c \in PatchKeys /\ patchBody'.f[c] # Undefined
       /\ (apiReq'.user \in Users /\ NothingToUpdate(patchBody')) =>
            apiResponse'.status = 400 /\ rows' = rows]_vars

\* a correction of the merchant was stored and the row kept its date
C25_Witness ==
  /\ apiReq.op = "patch"
  /\ apiResponse.status = 200
  /\ patchBody.f["merchant"] # Undefined
  /\ patchBody.f["txn_date"] = Undefined
  /\ RowWith(rows, apiReq.id).merchant = patchBody.f["merchant"]
  /\ RowWith(rows, apiReq.id).txn_date # Null

(***************************************************************************)
(* The add-receipt form: AddPage.onSubmit (route.ts 623-712) await by      *)
(* await, with the POST invocations its requests start.  The client never  *)
(* cancels an invocation: POST does not read request.signal.               *)
(***************************************************************************)
MsgUploadError == "new row violates row-level security policy"
MsgSessionExpired == "Session expired. Please log in again."
MsgTimedOut == "Processing timed out."
MsgFailedToFetch == "Failed to fetch"
MsgProcessFailed == "Process failed (500)."
MsgProcessErrorText == "{\"error\":\"OpenAI request timed out after 60s\"}"

\* catch without the finally block: the status is left as it was
Caught_noFinally(text) ==
  /\ addMessage' = text
  /\ addPc' = "idle"
  /\ runs' = [runs EXCEPT ![submits].shown = text]
  /\ UNCHANGED addStatus

\* lines 703-711: what catch and finally do with a rejected fetch
Caught(text) ==
  /\ addMessage' = text
  /\ addStatus' = "idle"
  /\ addPc' = "idle"
  /\ runs' = [runs EXCEPT ![submits].shown = text]

\* lines 787-789 and 625-650: the submit button is enabled only while
\* status is idle; onSubmit clears the message, builds a fresh imagePath
\* and starts the upload
Submit ==
  /\ addStatus = "idle"
  /\ submits < MaxSubmits
  /\ addMessage' = NoMessage
  /\ addStatus' = "uploading"
  /\ addPc' = "upload"
  /\ submits' = submits + 1
  /\ UNCHANGED <<clientLeft, runs>>

\* lines 651-664: the upload resolves, with an error or without
UploadReturns ==
  /\ addPc = "upload"
  /\ \E uploadError \in BOOLEAN :
       IF uploadError
         THEN /\ addStatus' = "idle"
              /\ addMessage' = MsgUploadError
              /\ addPc' = "idle"
              /\ runs' = [runs EXCEPT ![submits].shown = MsgUploadError]
         ELSE /\ addStatus' = "processing"
              /\ addPc' = "session"
              /\ UNCHANGED <<addMessage, runs>>
  /\ UNCHANGED <<clientLeft, submits>>

\* lines 666-693: getSession resolves; without an access token the form goes
\* back to idle, with one the abort timer is armed and the request is sent
SessionReturns ==
  /\ addPc = "session"
  /\ \E accessToken \in BOOLEAN :
       IF ~accessToken
         THEN /\ addStatus' = "idle"
              /\ addMessage' = MsgSessionExpired
              /\ addPc' = "idle"
              /\ runs' = [runs EXCEPT ![submits].shown = MsgSessionExpired]
              /\ UNCHANGED clientLeft
         ELSE /\ addPc' = "fetching"
              /\ clientLeft' = ClientTimeout
              /\ runs' = [runs EXCEPT ![submits].srv = "sent"]
              /\ UNCHANGED <<addStatus, addMessage>>
  /\ UNCHANGED submits

\* POST lines 500-541 and callOpenAiVision 434-436: the request reaches the
\* route; it is answered with an error before the model call, or the model
\* request is issued and the invocation's own 60 s timer starts
SrvAccept(i) ==
  /\ runs[i].srv = "sent"
  /\ \E early \in BOOLEAN :
       runs' = [runs EXCEPT ![i] =
                  IF early THEN Run("responded", 0, FALSE, FALSE, @.shown)
                  ELSE Run("model", Timeout, FALSE, FALSE, @.shown)]
  /\ UNCHANGED <<addStatus, addMessage, addPc, clientLeft, submits>>

\* POST lines 543-567: the model answered; the row is inserted and the
\* invocation answers 200, or the answer is unusable and it answers 400
SrvAnswers(i) ==
  /\ runs[i].srv = "model"
  /\ \E stored \in BOOLEAN :
       runs' = [runs EXCEPT ![i] = Run("responded", 0, stored, stored, @.shown)]
  /\ UNCHANGED <<addStatus, addMessage, addPc, clientLeft, submits>>

\* callOpenAiVision lines 435 and 459-466, POST 568-573: the invocation's
\* timer fired first; it answers 400 and inserts nothing
SrvTimerFires(i) ==
  /\ runs[i].srv = "model"
  /\ runs[i].left = 0
  /\ runs' = [runs EXCEPT ![i] = Run("responded", 0, FALSE, FALSE, @.shown)]
  /\ UNCHANGED <<addStatus, addMessage, addPc, clientLeft, submits>>

\* the timers that are pending: the form's and the invocations'
ArmedLeft ==
  (IF addPc = "fetching" THEN {clientLeft} ELSE {})
    \cup {runs[i].left : i \in {j \in 1..MaxSubmits : runs[j].srv = "model"}}

\* TickStep seconds pass; no pending timer is overrun
AddTick ==
  /\ ArmedLeft # {}
  /\ \A left \in ArmedLeft : left > 0
  /\ clientLeft' = IF addPc = "fetching" /\ clientLeft > TickStep
                     THEN clientLeft - TickStep ELSE 0
  /\ runs' = [i \in 1..MaxSubmits |->
                IF runs[i].srv = "model"
                  THEN [runs[i] EXCEPT
                          !.left = IF @ > TickStep THEN @ - TickStep ELSE 0]
                  ELSE runs[i]]
  /\ UNCHANGED <<addStatus, addMessage, addPc, submits>>

\* line 681 and lines 703-711: the form's timer fires, the fetch rejects
\* with an AbortError
ClientTimerFires ==
  /\ addPc = "fetching"
  /\ clientLeft = 0
  /\ Caught(MsgTimedOut)
  /\ UNCHANGED <<clientLeft, submits>>

\* lines 683-693 and 703-711: the fetch rejects for another reason
FetchRejects ==
  /\ addPc = "fetching"
  /\ Caught(MsgFailedToFetch)
  /\ clientLeft' = 0
  /\ UNCHANGED submits

\* lines 693-702 and 709-711: the response of this submission's invocation
\* arrives and the timer is cleared; a 2xx leaves for /transactions, another
\* status goes on to read the body
FetchReturns ==
  /\ addPc = "fetching"
  /\ runs[submits].srv = "responded"
  /\ clientLeft' = 0
  /\ IF runs[submits].ok
       THEN /\ addStatus' = "idle"
            /\ addPc' = "idle"
            /\ UNCHANGED <<addMessage, runs>>
       ELSE /\ addPc' = "text"
            /\ UNCHANGED <<addStatus, addMessage, runs>>
  /\ UNCHANGED submits

\* lines 696-698 and 709-711: res.text() settles (a rejection reads as "")
TextReturns ==
  /\ addPc = "text"
  /\ \E text \in {MsgProcessErrorText, ""} :
       Caught(IF text # "" THEN text ELSE MsgProcessFailed)
  /\ UNCHANGED <<clientLeft, submits>>

AddFrame ==
  UNCHANGED <<zodMajor, apiKey, rows, flowVars, apiVars, listVars, racers>>

NextAdd ==
  \/ Submit /\ AddFrame
  \/ UploadReturns /\ AddFrame
  \/ SessionReturns /\ AddFrame
  \/ (\E i \in 1..MaxSubmits : SrvAccept(i)) /\ AddFrame
  \/ (\E i \in 1..MaxSubmits : SrvAnswers(i)) /\ AddFrame
  \/ (\E i \in 1..MaxSubmits : SrvTimerFires(i)) /\ AddFrame
  \/ AddTick /\ AddFrame
  \/ ClientTimerFires /\ AddFrame
  \/ FetchRejects /\ AddFrame
  \/ FetchReturns /\ AddFrame
  \/ TextReturns /\ AddFrame

\* the form alone: the route's table and bucket play no part
InitAdd == Init /\ apiKey /\ zodMajor = 4 /\ rows = <<>>

SpecAdd == InitAdd /\ [][NextAdd]_vars

\* every await of onSubmit settles and every pending timer fires
SpecAddFair ==
  /\ SpecAdd
  /\ WF_vars(UploadReturns /\ AddFrame)
  /\ WF_vars(SessionReturns /\ AddFrame)
  /\ WF_vars((\E i \in 1..MaxSubmits : SrvTimerFires(i)) /\ AddFrame)
  /\ WF_vars(AddTick /\ AddFrame)
  /\ WF_vars(ClientTimerFires /\ AddFrame)
  /\ WF_vars(FetchReturns /\ AddFrame)
  /\ WF_vars(TextReturns /\ AddFrame)

\* C26: a submission started in idle brings the status back to idle whatever
\* the upload, the session lookup and the process request do, and while an
\* onSubmit is suspended the submit button is disabled, so that no second
\* submission starts
C26_BackToIdle ==
  /\ [](addPc # "idle" => addStatus # "idle")
  /\ [](addPc = "idle" => addStatus = "idle")
  /\ (addStatus # "idle") ~> (addStatus = "idle")

C26_Witness ==
  /\ addStatus = "idle"
  /\ submits = MaxSubmits
  /\ runs[1].shown = MsgTimedOut
  /\ runs[2].shown = MsgProcessErrorText

\* C27: a submission that ended with "Processing timed out." has no row:
\* its invocation has not inserted one and never does
C27_TimedOutHasNoRow ==
  \A i \in 1..MaxSubmits : runs[i].shown = MsgTimedOut => ~runs[i].inserted

(***************************************************************************)
(* The transactions list: TransactionsPage (page.tsx 171-413), with        *)
(* deleteTransaction and saveEdits taken await by await, and the DELETE    *)
(* and PATCH handlers each taken as one step on the table.                 *)
(***************************************************************************)
ListUser == "A"

ListPaths == <<"A/2024-03/r1.jpg", "A/2024-03/r2.jpg", "A/2024-03/r3.jpg">>

\* the rows the user stored before the page is opened
ListTable ==
  [i \in 1..ListSize |->
     InsertedRow(i, ListUser,
                 [imagePath |-> ListPaths[i], sourceType |-> "receipt"],
                 Costco)]

MsgDeleteFailed == "Failed to delete (500)."
MsgSaveFailed == "Failed to save (500)."
MsgCurrencyLength == "Currency must be a 3-letter code (e.g., CAD)."

\* what can go wrong inside a handler: the select, the storage call, the
\* delete or the update answers with an error
ListFaults == {"none", "select", "storage", "write"}

\* the rows whose Edit button is pressed
EditIds == {1}

\* who the bearer token of the page resolves to: the user, or nobody once it
\* expired
ListCallers == {ListUser, NoUser}

\* prev.findIndex((r) => r.id === id)
FindIndex(list, id) ==
  IF id \in IdsOf(list)
    THEN (CHOOSE i \in 1..Len(list) :
            list[i].id = id /\ \A j \in 1..(i - 1) : list[j].id # id) - 1
    ELSE -1

\* prev.filter((r) => r.id !== id)
Without(list, id) ==
  LET F[i \in 0..Len(list)] ==
        IF i = 0 THEN <<>>
        ELSE IF list[i].id = id THEN F[i - 1] ELSE Append(F[i - 1], list[i])
  IN F[Len(list)]

\* next.splice(insertAt, 0, row)
Splice(list, insertAt, row) ==
  SubSeq(list, 1, insertAt) \o <<row>> \o SubSeq(list, insertAt + 1, Len(list))

\* the rollback that appends the row instead of using removedIndex
PutBack_atEnd(list, removed, removedIndex) ==
  IF removed = NoRow THEN list
  ELSE IF removed.id \in IdsOf(list) THEN list
  ELSE Append(list, removed)

\* page.tsx 326-335: the rollback of the optimistic removal
PutBack(list, removed, removedIndex) ==
  IF removed = NoRow THEN list
  ELSE IF removed.id \in IdsOf(list) THEN list
  ELSE Splice(list,
              IF removedIndex >= 0
                THEN (IF removedIndex < Len(list) THEN removedIndex
                      ELSE Len(list))
                ELSE 0,
              removed)

\* route.ts 52-121 as one step: the status DELETE answers and what it
\* leaves in the table and in the bucket
DeleteOutcome(id, u, fault) ==
  LET m == MatchRow(id, u)
      path == Single(m).image_path
      Answer(code, table, bucket) ==
        [status |-> code, rows |-> table, objects |-> bucket]
  IN IF u = NoUser THEN Answer(401, rows, objects)
     ELSE IF fault = "select" THEN Answer(500, rows, objects)
     ELSE IF m = {} THEN Answer(404, rows, objects)
     ELSE IF fault = "storage" THEN Answer(500, rows, objects)
     ELSE IF fault = "write" THEN Answer(500, rows, objects \ {path})
     ELSE Answer(200, RemoveAt(rows, CHOOSE i \in m : TRUE),
                 objects \ {path})

\* route.ts 179-235 as one step: the status PATCH answers, the row it
\* returns and what it leaves in the table
PatchOutcome(b, u, fault) ==
  LET valid == PatchBodySchema(b)
      m == MatchRow(valid.id, u)
      i == CHOOSE n \in m : TRUE
      Answer(code, table, transaction) ==
        [status |-> code, rows |-> table, transaction |-> transaction]
  IN IF u = NoUser THEN Answer(401, rows, NoRow)
     ELSE IF ~valid.ok THEN Answer(400, rows, NoRow)
     ELSE IF \A k \in PatchKeys : valid.f[k] = Undefined
     THEN Answer(400, rows, NoRow)
     ELSE IF fault = "write" THEN Answer(500, rows, NoRow)
     ELSE IF m = {} THEN Answer(404, rows, NoRow)
     ELSE Answer(200, [rows EXCEPT ![i] = Updated(@, valid.f)],
                 Updated(rows[i], valid.f))

\* page.tsx 382-386 over toDraft (161-169): the text of a field as the
\* request body carries it, null for an empty or absent one
DraftText(v) ==
  IF v = Null THEN Null
  ELSE IF Trim(v.s) = <<>> THEN Null ELSE Str(Trim(v.s))

\* page.tsx 359 over centsToAmountString (146-149) and amountStringToCents
\* (151-159): toFixed(2) of a whole number of cents reads back as the same
\* number; a negative one reads back as null
DraftCents(v) ==
  IF IsNumber(v) /\ v.h >= 0 THEN v ELSE Null

\* page.tsx 366 over toDraft: (t.currency ?? "CAD").toUpperCase(), trimmed
DraftCurrency(v) ==
  ToUpperCase(Trim(IF v = Null THEN CAD.s ELSE v.s))

\* the body saveEdits sends for an unedited draft of row t
DraftOf(t) ==
  [k \in PatchKeys |->
     CASE k = "total_cents" -> DraftCents(t.total_cents)
       [] k = "currency" ->
            IF DraftCurrency(t.currency) = <<>> THEN Null
            ELSE Str(DraftCurrency(t.currency))
       [] OTHER -> DraftText(t[k])]

\* page.tsx 192-235: the session is read and the list is loaded
Load ==
  /\ listPc = "mounting"
  /\ \E u \in ListCallers :
       IF u = NoUser
         THEN listPc' = "login" /\ UNCHANGED listRows
         ELSE listPc' = "ready" /\ listRows' = RowsOf(u)
  /\ UNCHANGED <<deletingIds, listError, editingId, draft, saving, deletes,
                 save>>
  /\ UNCHANGED <<rows, objects>>

\* page.tsx 288-312: a swipe calls deleteTransaction(id); a call for an id
\* in deletingIds returns at once, another one removes the row from the
\* list, keeps it in removed and sends the DELETE request
DeleteTransaction(id) ==
  /\ listPc = "ready"
  /\ id \in IdsOf(listRows) \cup deletingIds
  /\ IF id \in deletingIds
       THEN UNCHANGED <<listError, deletingIds, listRows, deletes>>
       ELSE /\ listError' = ""
            /\ deletingIds' = deletingIds \cup {id}
            /\ listRows' = Without(listRows, id)
            /\ deletes' = [deletes EXCEPT ![id] =
                             DeleteCall("sent",
                                        IF id \in IdsOf(listRows)
                                          THEN RowWith(listRows, id)
                                          ELSE NoRow,
                                        FindIndex(listRows, id), 0)]
  /\ UNCHANGED <<listPc, editingId, draft, saving, save>>
  /\ UNCHANGED <<rows, objects>>

\* route.ts 52-121: the DELETE request of the call is handled
DeleteServed(id) ==
  /\ deletes[id].pc = "sent"
  /\ \E u \in ListCallers, fault \in ListFaults :
       LET o == DeleteOutcome(id, u, fault)
       IN /\ rows' = o.rows
          /\ objects' = o.objects
          /\ deletes' = [deletes EXCEPT ![id].pc = "answered",
                                        ![id].status = o.status]
  /\ UNCHANGED <<listPc, listRows, deletingIds, listError, editingId, draft,
                 saving, save>>

\* page.tsx 305-312: the request does not reach the route, fetch rejects
\* (status 0)
DeleteLost(id) ==
  /\ deletes[id].pc = "sent"
  /\ deletes' = [deletes EXCEPT ![id].pc = "answered", ![id].status = 0]
  /\ UNCHANGED <<listPc, listRows, deletingIds, listError, editingId, draft,
                 saving, save>>
  /\ UNCHANGED <<rows, objects>>

\* page.tsx 314-349: the fetch settled; 200 leaves the row removed, 401
\* leaves for /login, anything else shows the error and rolls back; finally
\* clears the id from deletingIds
DeleteSettles(id) ==
  /\ deletes[id].pc = "answered"
  /\ CASE deletes[id].status = 200 ->
            UNCHANGED <<listPc, listRows, listError>>
       [] deletes[id].status = 401 ->
            listPc' = "login" /\ UNCHANGED <<listRows, listError>>
       [] OTHER ->
            /\ listError' = MsgDeleteFailed
            /\ listRows' = PutBack(listRows, deletes[id].removed,
                                   deletes[id].removedIndex)
            /\ UNCHANGED listPc
  /\ deletingIds' = deletingIds \ {id}
  /\ deletes' = [deletes EXCEPT ![id] = NoDeleteCall]
  /\ UNCHANGED <<editingId, draft, saving, save>>
  /\ UNCHANGED <<rows, objects>>

\* page.tsx 415-419 and the inputs of the editor: the row's Edit button,
\* then the merchant is retyped
StartEditing(id) ==
  /\ listPc = "ready"
  /\ id \in IdsOf(listRows)
  /\ listError' = ""
  /\ editingId' = id
  /\ draft' = [DraftOf(RowWith(listRows, id)) EXCEPT !["merchant"] = Str(sFood)]
  /\ UNCHANGED <<listPc, listRows, deletingIds, saving, deletes, save>>
  /\ UNCHANGED <<rows, objects>>

\* page.tsx 421-425; the Cancel button is disabled while saving (922)
CancelEditing ==
  /\ listPc = "ready"
  /\ editingId \in IdsOf(listRows)
  /\ ~saving
  /\ editingId' = 0
  /\ draft' = NoPatchFields
  /\ saving' = FALSE
  /\ UNCHANGED <<listPc, listRows, deletingIds, listError, deletes, save>>
  /\ UNCHANGED <<rows, objects>>

\* page.tsx 352-388; the Save button is in the row being edited and is
\* disabled while saving (902)
SaveEdits ==
  /\ listPc = "ready"
  /\ editingId \in IdsOf(listRows)
  /\ ~saving
  /\ IF draft["currency"] # Null /\ Len(draft["currency"].s) # 3
       THEN /\ listError' = MsgCurrencyLength
            /\ UNCHANGED <<saving, save>>
       ELSE /\ listError' = ""
            /\ saving' = TRUE
            /\ save' = Save("sent", PatchBody(editingId, draft, FALSE), 0,
                            NoRow)
  /\ UNCHANGED <<listPc, listRows, deletingIds, editingId, draft, deletes>>
  /\ UNCHANGED <<rows, objects>>

\* route.ts 179-235: the PATCH request of the call is handled
SaveServed ==
  /\ save.pc = "sent"
  /\ \E u \in ListCallers, fault \in {"none", "write"} :
       LET o == PatchOutcome(save.body, u, fault)
       IN /\ rows' = o.rows
          /\ save' = [save EXCEPT !.pc = "answered", !.status = o.status,
                                  !.transaction = o.transaction]
  /\ UNCHANGED <<listPc, listRows, deletingIds, listError, editingId, draft,
                 saving, deletes>>
  /\ UNCHANGED objects

\* page.tsx 374-388: the request does not reach the route, fetch rejects
SaveLost ==
  /\ save.pc = "sent"
  /\ save' = [save EXCEPT !.pc = "answered", !.status = 0]
  /\ UNCHANGED <<listPc, listRows, deletingIds, listError, editingId, draft,
                 saving, deletes>>
  /\ UNCHANGED <<rows, objects>>

\* page.tsx 390-412: the fetch settled; 200 puts the returned row in the
\* place of the row with its id and closes the editor, 401 leaves for
\* /login, anything else shows the error; finally clears saving
SaveSettles ==
  /\ save.pc = "answered"
  /\ CASE save.status = 200 ->
            /\ listRows' = [i \in 1..Len(listRows) |->
                              IF listRows[i].id = save.transaction.id
                                THEN save.transaction ELSE listRows[i]]
            /\ editingId' = 0
            /\ draft' = NoPatchFields
            /\ UNCHANGED <<listPc, listError>>
       [] save.status = 401 ->
            /\ listPc' = "login"
            /\ UNCHANGED <<listRows, listError, editingId, draft>>
       [] OTHER ->
            /\ listError' = MsgSaveFailed
            /\ UNCHANGED <<listPc, listRows, editingId, draft>>
  /\ saving' = FALSE
  /\ save' = NoSave
  /\ UNCHANGED <<deletingIds, deletes>>
  /\ UNCHANGED <<rows, objects>>

ListFrame ==
  UNCHANGED <<zodMajor, apiKey, nextId, apiReq, apiResponse, modelInput, del,
              patchBody, flowVars, addVars, racers>>

NextList ==
  \/ Load /\ ListFrame
  \/ (\E id \in 1..ListSize : DeleteTransaction(id)) /\ ListFrame
  \/ (\E id \in 1..ListSize : DeleteServed(id)) /\ ListFrame
  \/ (\E id \in 1..ListSize : DeleteLost(id)) /\ ListFrame
  \/ (\E id \in 1..ListSize : DeleteSettles(id)) /\ ListFrame
  \/ (\E id \in EditIds : StartEditing(id)) /\ ListFrame
  \/ CancelEditing /\ ListFrame
  \/ SaveEdits /\ ListFrame
  \/ SaveServed /\ ListFrame
  \/ SaveLost /\ ListFrame
  \/ SaveSettles /\ ListFrame

InitList ==
  /\ InitWith(ListTable, {ListPaths[i] : i \in 1..ListSize})
  /\ apiKey
  /\ zodMajor = 4

SpecList == InitList /\ [][NextList]_vars

\* the list with row put in so that k rows stand before it
WithRowAt(list, k, row) ==
  [i \in 1..(Len(list) + 1) |->
     IF i <= k THEN list[i] ELSE IF i = k + 1 THEN row ELSE list[i - 1]]

\* C28: a deleteTransaction call that fetches takes the row out of the list
\* at once; when the call ends after a failure other than 401 the error is
\* shown and the row it took out is back once, with removedIndex rows before
\* it or the whole list if that is shorter; after 200 the list is left as it
\* is, without the row; the call's end clears its id from deletingIds; and no
\* request is sent for an id that is in deletingIds
C28_OptimisticDelete ==
  [][\A id \in 1..ListSize :
       LET call == deletes[id]
           started == call.pc = "none" /\ deletes'[id].pc = "sent"
           ended == call.pc = "answered" /\ deletes'[id].pc = "none"
           before == IF call.removedIndex < Len(listRows)
                       THEN call.removedIndex ELSE Len(listRows)
       IN /\ started =>
               /\ id \notin IdsOf(listRows')
               /\ Len(listRows') = Len(listRows) - 1
               /\ deletes'[id].removed.id = id
               /\ listRows =
                    WithRowAt(listRows', deletes'[id].removedIndex,
                              deletes'[id].removed)
          /\ (ended /\ call.status \notin {200, 401}) =>
               /\ listError' # ""
               /\ listRows' = WithRowAt(listRows, before, call.removed)
               /\ Cardinality({i \in 1..Len(listRows') :
                                 listRows'[i].id = id}) = 1
          /\ (ended /\ call.status = 200) =>
               /\ listRows' = listRows
               /\ id \notin IdsOf(listRows')
          /\ ended => id \notin deletingIds'
          /\ (id \in deletingIds /\ deletes'[id].pc = "sent") =>
               deletes'[id] = call]_vars

\* a delete failed after a later delete had emptied the list: the row is
\* back at the clamped index and the error is shown
C28_Witness ==
  /\ listPc = "ready"
  /\ listError = MsgDeleteFailed
  /\ deletingIds = {}
  /\ IdsOf(listRows) = {1}
  /\ Len(rows) = 1

Quiescent ==
  /\ \A id \in 1..ListSize : deletes[id].pc = "none"
  /\ save.pc = "none"

\* C30: once no save and no delete is in flight, every row the list shows
\* is a row of the table as the table stores it
C30_ShownIsStored ==
  (listPc = "ready" /\ Quiescent) =>
    \A i \in 1..Len(listRows) : \E j \in 1..Len(rows) : rows[j] = listRows[i]

(***************************************************************************)
(* Two DELETE invocations of the list's user race on the table and the     *)
(* bucket: each is taken await by await (route.ts 52-121).                 *)
(***************************************************************************)
\* lines 53-71: the request arrives with the user's token and an id
RaceRequest(k) ==
  /\ racers[k].pc = "idle"
  /\ \E id \in 1..ListSize :
       racers' = [racers EXCEPT ![k] = Racer("select", id, Missing, 0)]
  /\ UNCHANGED <<rows, objects>>

\* lines 73-90: the select answers: an error is 500, no row is 404, a row
\* gives image_path
RaceSelect(k) ==
  /\ racers[k].pc = "select"
  /\ \E txnError \in BOOLEAN :
       LET m == MatchRow(racers[k].id, ListUser)
       IN racers' = [racers EXCEPT ![k] =
                       IF txnError
                         THEN [Racer("done", @.id, Missing, 500)
                                 EXCEPT !.failed = TRUE]
                       ELSE IF m = {} THEN Racer("done", @.id, Missing, 404)
                       ELSE Racer(IF Single(m).image_path # Missing
                                    THEN "remove" ELSE "delete",
                                  @.id, Single(m).image_path, 0)]
  /\ UNCHANGED <<rows, objects>>

\* lines 90-102: storage.remove answers: an error of the call is 500; an
\* object that is gone already is no error or a "not found" one, and the
\* handler goes on
RaceRemove(k) ==
  /\ racers[k].pc = "remove"
  /\ \E storageError \in BOOLEAN :
       IF storageError
         THEN /\ racers' = [racers EXCEPT ![k].pc = "done", ![k].status = 500,
                                          ![k].failed = TRUE]
              /\ UNCHANGED objects
         ELSE /\ objects' = objects \ {racers[k].image_path}
              /\ racers' = [racers EXCEPT ![k].pc = "delete"]
  /\ UNCHANGED rows

\* the delete of the row without the check of data at lines 116-118
RaceDelete_noDataCheck(k) ==
  /\ racers[k].pc = "delete"
  /\ \E delError \in BOOLEAN :
       LET m == MatchRow(racers[k].id, ListUser)
       IN IF delError
            THEN /\ racers' = [racers EXCEPT ![k].pc = "done",
                                             ![k].status = 500,
                                             ![k].failed = TRUE]
                 /\ UNCHANGED rows
            ELSE /\ rows' = IF m = {} THEN rows
                            ELSE RemoveAt(rows, CHOOSE i \in m : TRUE)
                 /\ racers' = [racers EXCEPT ![k].pc = "done",
                                             ![k].status = 200]
  /\ UNCHANGED objects

\* lines 104-120: the delete of the row answers: an error is 500, the
\* deleted row is 200, no row is 404
RaceDelete(k) ==
  /\ racers[k].pc = "delete"
  /\ \E delError \in BOOLEAN :
       LET m == MatchRow(racers[k].id, ListUser)
       IN IF delError
            THEN /\ racers' = [racers EXCEPT ![k].pc = "done",
                                             ![k].status = 500,
                                             ![k].failed = TRUE]
                 /\ UNCHANGED rows
            ELSE IF m = {}
            THEN /\ racers' = [racers EXCEPT ![k].pc = "done",
                                             ![k].status = 404]
                 /\ UNCHANGED rows
            ELSE /\ rows' = RemoveAt(rows, CHOOSE i \in m : TRUE)
                 /\ racers' = [racers EXCEPT ![k].pc = "done",
                                             ![k].status = 200]
  /\ UNCHANGED objects

RaceFrame ==
  UNCHANGED <<zodMajor, apiKey, nextId, apiReq, apiResponse, modelInput, del,
              patchBody, flowVars, addVars, listVars>>

NextRace ==
  \/ (\E k \in Racers : RaceRequest(k)) /\ RaceFrame
  \/ (\E k \in Racers : RaceSelect(k)) /\ RaceFrame
  \/ (\E k \in Racers : RaceRemove(k)) /\ RaceFrame
  \/ (\E k \in Racers : RaceDelete(k)) /\ RaceFrame

SpecRace == InitList /\ [][NextRace]_vars


\* C29: when two DELETE requests of one user for one id have both
\* answered, and no call of theirs to the database or to storage failed,
\* the row and its image are gone, and one answered 200 and the other 404
C29_OneWinner ==
  (/\ racers[1].pc = "done"
   /\ racers[2].pc = "done"
   /\ racers[1].id = racers[2].id
   /\ ~racers[1].failed
   /\ ~racers[2].failed) =>
    /\ racers[1].id \notin IdsOf(rows)
    /\ ListPaths[racers[1].id] \notin objects
    /\ {racers[1].status, racers[2].status} = {200, 404}

\* both requests had selected the row before either deleted it
C29_Witness ==
  /\ racers[1].pc = "done"
  /\ racers[2].pc = "done"
  /\ racers[1].id = racers[2].id
  /\ racers[1].image_path # Missing
  /\ racers[2].image_path # Missing
  /\ racers[2].status = 200

====
